---- MODULE Spec2Model ----
(***************************************************************************)
(* Model of the API dependency graph and call-sequence engine of           *)
(* src/librustdoc/fuzz_targets_gen/api_graph.rs (struct ApiGraph).          *)
(*                                                                         *)
(* Positions (function indexes, call indexes, parameter indexes, fuzzable  *)
(* slots, dependency indexes) are 1-based here and 0-based in the source.  *)
(* Option<X> is a sequence of length 0 (None) or 1 (Some(x)).               *)
(* The unsafe flag, the trait list and the mut tags of a sequence only     *)
(* feed the rendering of a sequence and are left out.                      *)
(*                                                                         *)
(* pc is the stage that the caller of ApiGraph has reached.  The caller is *)
(* outside api_graph.rs; it adds the functions and the mods of a crate     *)
(* ("new"), filters the functions ("filtered"), builds the dependencies    *)
(* ("ready", "rebuilt"), searches and chooses, in this order.  The set     *)
(* functions_with_unsupported_fuzzable_types is written by                 *)
(* add_api_function and read by no method, and is left out.                *)
(***************************************************************************)
EXTENDS Integers, Sequences, FiniteSets, TLC

VARIABLES api_functions, api_dependencies, api_sequences,
          api_functions_visited, pc, walk, ret, res, _crate_name, at,
          mod_visibility

vars == <<api_functions, api_dependencies, api_sequences,
          api_functions_visited, pc, walk, ret, res, _crate_name, at,
          mod_visibility>>

None == <<>>
NoWalk == [i |-> 0, max_size |-> 0, stop_at_end_function |-> FALSE, max_depth |-> 0]
Some(x) == <<x>>
\* no bfs is under way
NoPass == [len |-> 0, max_len |-> 0, stop_at_end_function |-> FALSE,
           fast_mode |-> FALSE, tmp_sequences |-> <<>>, n |-> 0,
           api_func_index |-> 0]

Range(s) == {s[i] : i \in 1..Len(s)}

RECURSIVE Flatten(_)
Flatten(ss) == IF ss = <<>> THEN <<>> ELSE Head(ss) \o Flatten(Tail(ss))

RECURSIVE Reverse(_)
Reverse(s) == IF s = <<>> THEN <<>> ELSE Reverse(Tail(s)) \o <<Head(s)>>

Iota(n) == [i \in 1..n |-> i]

\* the orders in which the elements of S can be listed
RECURSIVE Orders(_)
Orders(S) ==
    IF S = {} THEN {<<>>}
    ELSE UNION {{<<x>> \o rest : rest \in Orders(S \ {x})} : x \in S}

(***************************************************************************)
(* The type-compatibility oracle (api_util, fuzz_type, call_type).  Types   *)
(* are opaque names.  H, W and OptH are library types that are moved when   *)
(* passed by value, C is a library type that is copied when passed by       *)
(* value, "&X" / "&mutX" are the shared / exclusive references to X, T and  *)
(* U are generic type parameters.                                           *)
(***************************************************************************)
GenericNames == {"T", "U"}

\* clean::Type::Primitive(I32), the type every generic type parameter gets
DefaultSubstitution == "i32"

NoSubstitutions == [g \in {} |-> DefaultSubstitution]

substitute_type(ty, generic_substitutions) ==
    IF ty \in GenericNames
    THEN IF ty \in DOMAIN generic_substitutions
         THEN Some(generic_substitutions[ty]) ELSE None
    ELSE Some(ty)

_same_type(output_type, input_type) ==
    CASE output_type = input_type /\ input_type \in {"H", "W", "OptH", "bad"}
                                                                  -> "_Move"
      [] output_type = input_type /\ input_type \in {"C", "i32", "u8"} -> "_Copy"
      [] output_type = "OptH" /\ input_type = "H" -> "_Move"
      [] output_type = "H" /\ input_type = "OptH" -> "_Move"
      [] output_type = "H" /\ input_type = "&H" -> "_BorrowedRef"
      [] output_type = "H" /\ input_type = "&mutH" -> "_MutBorrowedRef"
      [] output_type = "C" /\ input_type = "&C" -> "_BorrowedRef"
      [] output_type = "C" /\ input_type = "&mutC" -> "_MutBorrowedRef"
      [] output_type = "OptH" /\ input_type = "&OptH" -> "_BorrowedRef"
      [] OTHER -> "_NotCompatible"

_move_condition(current_ty, call_type) == call_type = "_Move"
_is_mutable_borrow_occurs(current_ty, call_type) == call_type = "_MutBorrowedRef"
_is_immutable_borrow_occurs(current_ty, call_type) == call_type = "_BorrowedRef"

\* generic_substitutions is an Option: None where the source passes None
is_fuzzable_type(ty, generic_substitutions) ==
    LET sub == IF generic_substitutions = None THEN None
               ELSE substitute_type(ty, generic_substitutions[1])
        t == IF sub = None THEN ty ELSE sub[1]
    IN t \in {"i32", "u8", "str", "bytes", "bad"}

I32Size == 4
U8Size == 1

\* the FuzzableType of fuzzable_call_type(..).generate_fuzzable_type_and_call_type()
fuzzable_type_of(ty, generic_substitutions) ==
    LET sub == substitute_type(ty, generic_substitutions)
        t == IF sub = None THEN ty ELSE sub[1]
    IN CASE t = "i32" -> [kind |-> "fixed", min_size |-> I32Size]
         [] t = "u8" -> [kind |-> "fixed", min_size |-> U8Size]
         [] t \in {"str", "bytes"} -> [kind |-> "dynamic", min_size |-> 0]
         [] OTHER -> [kind |-> "NoFuzzable", min_size |-> 0]

(***************************************************************************)
(* The signature catalog.  An ApiFunction is a record; _is_start_function   *)
(* and _is_end_function are the external convention predicates.            *)
(***************************************************************************)
Fn(name, inputs, output) ==
    [full_name |-> name, inputs |-> inputs, output |-> output,
     _generics |-> <<>>, generic_substitutions |-> NoSubstitutions,
     visibility |-> "Public", _trait_full_path |-> None,
     is_start |-> FALSE, is_end |-> FALSE]

\* a declared generic parameter; kind is "Lifetime", "Type" or "Const"
GenericParamDef(name, kind) == [name |-> name, kind |-> kind]

\* a function that declares the generic parameters _generics; its
\* substitution map is empty until add_api_function fills it
GenericFn(name, _generics, inputs, output) ==
    [Fn(name, inputs, output) EXCEPT !._generics = _generics]

\* a function that is not declared pub
Inherited(f) == [f EXCEPT !.visibility = "Inherited"]

\* a function that implements a trait
OfTrait(f, trait_full_path) == [f EXCEPT !._trait_full_path = Some(trait_full_path)]

StartFn(f) == [f EXCEPT !.is_start = TRUE]
EndFn(f) == [f EXCEPT !.is_end = TRUE]

_is_start_function(f) == f.is_start
_is_end_function(f) == f.is_end

BuilderCatalog ==
    << Fn("new", <<>>, Some("H")),
       Fn("set", <<"H", "i32">>, Some("H")),
       Fn("build", <<"H">>, Some("W")),
       Fn("join", <<"W", "H">>, None) >>

HandleCatalog ==
    << Fn("open", <<"str">>, Some("H")),
       Fn("write", <<"&mutH", "bytes">>, None),
       Fn("close", <<"&H">>, None),
       Fn("write8", <<"&mutH", "u8">>, None) >>

BorrowCatalog ==
    << Fn("make", <<"i32">>, Some("H")),
       Fn("mix", <<"&mutH", "&H">>, None),
       Fn("xim", <<"&H", "&mutH">>, None),
       Fn("dup", <<"&mutH", "&mutH">>, None),
       Fn("pair", <<"&H", "&H">>, Some("W")) >>

OptionCatalog ==
    << Fn("some", <<>>, Some("OptH")),
       Fn("plain", <<"u8">>, Some("H")),
       Fn("take", <<"H">>, Some("W")),
       Fn("both", <<"&OptH", "W">>, None) >>

MiscCatalog ==
    << StartFn(Fn("init", <<"str", "i32">>, Some("C"))),
       GenericFn("mk", << GenericParamDef("'a", "Lifetime"),
                          GenericParamDef("T", "Type"),
                          GenericParamDef("U", "Type"),
                          GenericParamDef("N", "Const") >>,
                 <<"T">>, Some("U")),
       Fn("tweak", <<"&mutC", "C">>, Some("H")),
       EndFn(Fn("drop", <<"H", "&C">>, Some("H"))),
       Fn("odd", <<"bad", "U">>, Some("H")) >>

\* ping takes what pong returns and pong what ping returns; spin takes what
\* it returns itself
CycleCatalog ==
    << Fn("seed", <<"str">>, Some("W")),
       Fn("spin", <<"W">>, Some("W")),
       Fn("ping", <<"W">>, Some("H")),
       Fn("pong", <<"H">>, Some("W")) >>

\* pack returns a value of the type that is fuzzable without an encoding
TupleCatalog ==
    << Fn("pack", <<"u8">>, Some("bad")),
       Fn("unpack", <<"bad", "u8">>, Some("H")),
       EndFn(Fn("close", <<"u8">>, None)) >>

\* make and again return values of one type, and mix borrows two of them
AliasCatalog ==
    << Fn("make", <<"i32">>, Some("H")),
       Fn("again", <<"str">>, Some("H")),
       Fn("mix", <<"&mutH", "&H">>, None) >>

\* solo neither takes nor feeds a value of another function
IslandCatalog ==
    << Fn("open", <<"str">>, Some("H")),
       Fn("close", <<"&H">>, None),
       Fn("solo", <<"bytes">>, Some("W")) >>

\* the functions that the filter on the visibility tells apart; W has no
\* producer here, so none of them is ever called
CrateCatalog ==
    << Fn("lib::run", <<"W">>, None),
       Inherited(Fn("lib::hide", <<"W">>, None)),
       Fn("lib::inner::deep", <<"W">>, None),
       OfTrait(Fn("lib::show", <<"W">>, None), "lib::inner::Show") >>

\* a function that add_api_function does not push and one that the filter
\* on prelude types drops
PreludeCatalog ==
    << Fn("lib::raw", <<"ptr">>, None),
       Fn("Option::unwrap", <<"W">>, None) >>

BaseCatalogs ==
    {BuilderCatalog, HandleCatalog, BorrowCatalog, OptionCatalog, MiscCatalog,
     CycleCatalog, TupleCatalog, AliasCatalog, IslandCatalog}

\* the functions of catalog c at the positions of keep, in catalog order
RECURSIVE SubCatalog(_, _, _)
SubCatalog(c, keep, i) ==
    IF i > Len(c) THEN <<>>
    ELSE (IF i \in keep THEN <<c[i]>> ELSE <<>>) \o SubCatalog(c, keep, i + 1)

SubCatalogs(c) ==
    UNION {{SubCatalog(c, keep, 1), Reverse(SubCatalog(c, keep, 1))} :
              keep \in SUBSET (1..Len(c))}

Catalogs == UNION {SubCatalogs(c) : c \in BaseCatalogs}

(***************************************************************************)
(* The construction of the catalog: add_api_function and the filters.       *)
(***************************************************************************)
\* the types that make a function unsupported
UnsupportedTypes == {"ptr"}

\* ApiFunction::contains_unsupported_fuzzable_type
contains_unsupported_fuzzable_type(api_fun) ==
    \E i \in 1..Len(api_fun.inputs) : api_fun.inputs[i] \in UnsupportedTypes

\* add_api_function: an unsupported function is not pushed; every declared
\* generic parameter of kind Type is substituted by i32, lifetimes and const
\* parameters are passed over
add_api_function(functions, api_fun) ==
    IF contains_unsupported_fuzzable_type(api_fun) THEN functions
    ELSE LET generic_names ==
                 {api_fun._generics[n].name :
                     n \in {m \in 1..Len(api_fun._generics) :
                               api_fun._generics[m].kind = "Type"}}
         IN Append(functions,
                   [api_fun EXCEPT !.generic_substitutions =
                       [g \in (DOMAIN @) \cup generic_names |->
                           IF g \in generic_names THEN DefaultSubstitution
                           ELSE @[g]]])

\* the catalog after add_api_function on every function of c, in order
RECURSIVE Constructed(_)
Constructed(c) ==
    IF c = <<>> THEN <<>>
    ELSE add_api_function(Constructed(SubSeq(c, 1, Len(c) - 1)), c[Len(c)])

starts_with(s, prefix) ==
    Len(s) >= Len(prefix) /\ SubSeq(s, 1, Len(prefix)) = prefix

\* prelude_type::get_all_preluded_type()
PreludeTypes == {"Option", "Result"}

\* ApiFunction::is_not_defined_on_prelude_type
is_not_defined_on_prelude_type(api_function, prelude_types) ==
    \A prelude_type \in prelude_types :
       /\ ~starts_with(api_function.full_name, prelude_type \o "::")
       /\ \/ api_function._trait_full_path = None
          \/ ~starts_with(api_function._trait_full_path[1], prelude_type \o "::")

filter_functions_defined_on_prelude_type(functions) ==
    LET prelude_types == PreludeTypes
    IN IF Cardinality(prelude_types) <= 0 THEN functions
       ELSE SelectSeq(functions,
                      LAMBDA api_function :
                         is_not_defined_on_prelude_type(api_function, prelude_types))

\* the mods a crate registers with add_mod_visibility
Mods == {"lib::inner"}

\* ModVisibity::new: no mod is registered
ModVisibity_new == [mod_name \in {} |-> "Public"]

\* ModVisibity::add_one_mod
add_one_mod(inner, mod_name, visibility) ==
    [registered \in DOMAIN inner \cup {mod_name} |->
        IF registered = mod_name THEN visibility ELSE inner[registered]]

\* ModVisibity::get_invisible_mods
get_invisible_mods(inner) ==
    {mod_name \in DOMAIN inner : inner[mod_name] # "Public"}

\* the loop of filter_api_functions_by_mod_visibility: a function is kept
\* when neither its name nor its trait starts with an invisible mod and it
\* is public
filter_api_functions_by_mod_visibility(functions, invisible_mods) ==
    LET invisible_flag(api_func) ==
            \E invisible_mod \in invisible_mods :
               \/ starts_with(api_func.full_name, invisible_mod)
               \/ /\ api_func._trait_full_path # None
                  /\ starts_with(api_func._trait_full_path[1], invisible_mod)
    IN SelectSeq(functions,
                 LAMBDA api_func :
                    ~invisible_flag(api_func) /\ api_func.visibility = "Public")

(***************************************************************************)
(* find_all_dependencies.  The loops over producers, consumers and          *)
(* parameters take their visiting order as an argument; the method visits   *)
(* all three in catalog order.                                              *)
(***************************************************************************)
\* the edge is pushed whatever the oracle answers
DependencyOf_any_call_type(i, j, k) ==
    LET first_fun == api_functions[i]
        second_fun == api_functions[j]
        output_type == substitute_type(first_fun.output[1],
                                       first_fun.generic_substitutions)
        input_type == substitute_type(second_fun.inputs[k],
                                      second_fun.generic_substitutions)
    IN IF output_type = None \/ input_type = None THEN <<>>
       ELSE << [output_fun |-> i, input_fun |-> j, input_param_index |-> k,
                call_type |-> _same_type(output_type[1], input_type[1])] >>

\* the body of "for k in 0..input_params_num": the edge pushed for producer
\* i and parameter k of consumer j, if any
DependencyOf(i, j, k) ==
    LET first_fun == api_functions[i]
        second_fun == api_functions[j]
        output_type == substitute_type(first_fun.output[1],
                                       first_fun.generic_substitutions)
        input_type == substitute_type(second_fun.inputs[k],
                                      second_fun.generic_substitutions)
    IN IF output_type = None \/ input_type = None THEN <<>>
       ELSE LET call_type == _same_type(output_type[1], input_type[1])
            IN IF call_type = "_NotCompatible" THEN <<>>
               ELSE << [output_fun |-> i, input_fun |-> j,
                        input_param_index |-> k, call_type |-> call_type] >>

\* the order in which the parameters of consumer j are visited
ParamOrder(j, backwards) ==
    IF backwards THEN Reverse(Iota(Len(api_functions[j].inputs)))
    ELSE Iota(Len(api_functions[j].inputs))

DependenciesOfPair(i, j, backwards) ==
    IF _is_start_function(api_functions[j]) THEN <<>>
    ELSE Flatten([n \in 1..Len(api_functions[j].inputs) |->
                     DependencyOf(i, j, ParamOrder(j, backwards)[n])])

\* the edges from an end function are recorded as well
DependenciesOfProducer_end_included(i, consumer_order, backwards) ==
    IF api_functions[i].output = None
    THEN <<>>
    ELSE Flatten([n \in 1..Len(consumer_order) |->
                     DependenciesOfPair(i, consumer_order[n], backwards)])

DependenciesOfProducer(i, consumer_order, backwards) ==
    IF _is_end_function(api_functions[i]) \/ api_functions[i].output = None
    THEN <<>>
    ELSE Flatten([n \in 1..Len(consumer_order) |->
                     DependenciesOfPair(i, consumer_order[n], backwards)])

\* the edges of the previous run stay in the list
keep(dependencies) == dependencies

\* self.api_dependencies.clear()
clear(dependencies) == <<>>

find_all_dependencies(producer_order, consumer_order, backwards) ==
    clear(api_dependencies) \o
    Flatten([n \in 1..Len(producer_order) |->
                DependenciesOfProducer(producer_order[n], consumer_order,
                                       backwards)])

(***************************************************************************)
(* ApiSequence and ApiCall (api_sequence.rs).                               *)
(***************************************************************************)
ApiSequence_new ==
    [functions |-> <<>>, fuzzable_params |-> <<>>,
     _covered_dependencies |-> {}, _moved |-> {}]

ApiCall_new(fun_index) == [func |-> fun_index, params |-> <<>>]

_add_param(api_call, param_type, index, call_type) ==
    [api_call EXCEPT !.params =
        Append(@, [param_type |-> param_type, index |-> index,
                   call_type |-> call_type])]

_add_fn(sequence, api_call) ==
    [sequence EXCEPT !.functions = Append(@, api_call)]

_add_dependency(sequence, dependency_index) ==
    [sequence EXCEPT !._covered_dependencies = @ \cup {dependency_index}]

_is_moved(sequence, function_index) == function_index \in sequence._moved

_insert_move_indexes(sequence, move_indexes) ==
    [sequence EXCEPT !._moved = @ \cup move_indexes]

_dynamic_length_param_number(sequence) ==
    Cardinality({n \in 1..Len(sequence.fuzzable_params) :
                    sequence.fuzzable_params[n].kind = "dynamic"})

_contains_multi_dynamic_length_fuzzable(sequence) ==
    _dynamic_length_param_number(sequence) > 1

_is_fuzzables_fixed_length(sequence) ==
    _dynamic_length_param_number(sequence) = 0

_has_no_fuzzables(sequence) == sequence.fuzzable_params = <<>>

_get_contained_api_functions(sequence) ==
    {sequence.functions[n].func : n \in 1..Len(sequence.functions)}

_last_api_func_index(sequence) ==
    IF sequence.functions = <<>> THEN None
    ELSE Some(sequence.functions[Len(sequence.functions)].func)

(***************************************************************************)
(* check_dependency: the index of the first recorded dependency from        *)
(* output_index to parameter input_param_index_ of input_index.  Every      *)
(* function is an ApiType::BareFunction; GenericFunction is never built.    *)
(***************************************************************************)
check_dependency(output_index, input_index, input_param_index_) ==
    LET hits == {index \in 1..Len(api_dependencies) :
                    /\ api_dependencies[index].output_fun = output_index
                    /\ api_dependencies[index].input_fun = input_index
                    /\ api_dependencies[index].input_param_index = input_param_index_}
    IN IF hits = {} THEN None
       ELSE Some(CHOOSE index \in hits : \A other \in hits : index <= other)

(***************************************************************************)
(* is_fun_satisfied.  st is the state of the loop over the parameters:      *)
(* new_sequence, api_call, the three per-call sets and whether the          *)
(* current parameter found its dependency.                                  *)
(***************************************************************************)
\* a result moved by an earlier call is offered again
moved_already_this_call_only(st, function_index) ==
    function_index \in st._moved_indexes

\* "if new_sequence._is_moved(function_index) || _moved_indexes.contains(..)"
moved_already(st, function_index) ==
    \/ _is_moved(st.new_sequence, function_index)
    \/ function_index \in st._moved_indexes

\* a shared borrow of a result that this call borrows exclusively passes
borrow_conflict_shared_unchecked(st, function_index, current_ty, call_type) ==
    \/ /\ _move_condition(current_ty, call_type)
       /\ function_index \in (st._multi_mut \cup st._immutable_borrow)
    \/ /\ _is_mutable_borrow_occurs(current_ty, call_type)
       /\ function_index \in (st._multi_mut \cup st._immutable_borrow)

\* an exclusive borrow is checked against _multi_mut only
borrow_conflict_mut_ignores_shared(st, function_index, current_ty, call_type) ==
    \/ /\ _move_condition(current_ty, call_type)
       /\ function_index \in (st._multi_mut \cup st._immutable_borrow)
    \/ /\ _is_mutable_borrow_occurs(current_ty, call_type)
       /\ function_index \in st._multi_mut
    \/ /\ _is_immutable_borrow_occurs(current_ty, call_type)
       /\ function_index \in st._multi_mut

\* a shared borrow of a result that this call already borrows, shared or
\* exclusively, is a conflict
borrow_conflict_shared_once(st, function_index, current_ty, call_type) ==
    \/ /\ _move_condition(current_ty, call_type)
       /\ function_index \in (st._multi_mut \cup st._immutable_borrow)
    \/ /\ _is_mutable_borrow_occurs(current_ty, call_type)
       /\ function_index \in (st._multi_mut \cup st._immutable_borrow)
    \/ /\ _is_immutable_borrow_occurs(current_ty, call_type)
       /\ function_index \in (st._multi_mut \cup st._immutable_borrow)

\* the three checks against _multi_mut and _immutable_borrow that end in
\* "dependency_flag = false; continue"
borrow_conflict(st, function_index, current_ty, call_type) ==
    \/ /\ _move_condition(current_ty, call_type)
       /\ function_index \in (st._multi_mut \cup st._immutable_borrow)
    \/ /\ _is_mutable_borrow_occurs(current_ty, call_type)
       /\ function_index \in (st._multi_mut \cup st._immutable_borrow)
    \/ /\ _is_immutable_borrow_occurs(current_ty, call_type)
       /\ function_index \in st._multi_mut

\* the accepted producer is recorded on the parameter as a direct call,
\* whatever the access mode of the edge
bind_producer_direct(st, function_index, current_ty, call_type) ==
    [st EXCEPT
       !.dependency_flag = TRUE,
       !._moved_indexes =
           IF _move_condition(current_ty, call_type)
           THEN @ \cup {function_index} ELSE @,
       !._multi_mut =
           IF _is_mutable_borrow_occurs(current_ty, call_type)
           THEN @ \cup {function_index} ELSE @,
       !._immutable_borrow =
           IF _is_immutable_borrow_occurs(current_ty, call_type)
           THEN @ \cup {function_index} ELSE @,
       !.api_call = _add_param(@, "_FunctionReturn", function_index, "_DirectCall")]

\* the inserts into the three per-call sets and the api_call._add_param of
\* an accepted producer
bind_producer(st, function_index, current_ty, call_type) ==
    [st EXCEPT
       !.dependency_flag = TRUE,
       !._moved_indexes =
           IF _move_condition(current_ty, call_type)
           THEN @ \cup {function_index} ELSE @,
       !._multi_mut =
           IF _is_mutable_borrow_occurs(current_ty, call_type)
           THEN @ \cup {function_index} ELSE @,
       !._immutable_borrow =
           IF _is_immutable_borrow_occurs(current_ty, call_type)
           THEN @ \cup {function_index} ELSE @,
       !.api_call = _add_param(@, "_FunctionReturn", function_index, call_type)]

\* the results of the sequence are tried from the last call to the first
RECURSIVE ScanProducers_latest_first(_, _, _, _, _)
ScanProducers_latest_first(st, input_fun_index, i, n, functions_in_sequence_len) ==
    IF n > functions_in_sequence_len THEN st
    ELSE
    LET function_index == functions_in_sequence_len + 1 - n
        dependency_index ==
            check_dependency(st.new_sequence.functions[function_index].func,
                             input_fun_index, i)
        current_ty == api_functions[input_fun_index].inputs[i]
    IN IF moved_already(st, function_index) \/ dependency_index = None
       THEN ScanProducers_latest_first(st, input_fun_index, i, n + 1,
                                       functions_in_sequence_len)
       ELSE IF borrow_conflict(st, function_index, current_ty,
                               api_dependencies[dependency_index[1]].call_type)
       THEN ScanProducers_latest_first(
                [st EXCEPT !.new_sequence = _add_dependency(@, dependency_index[1]),
                           !.dependency_flag = FALSE],
                input_fun_index, i, n + 1, functions_in_sequence_len)
       ELSE bind_producer(
                [st EXCEPT !.new_sequence = _add_dependency(@, dependency_index[1])],
                function_index, current_ty,
                api_dependencies[dependency_index[1]].call_type)

\* the loop "for function_index in 0..functions_in_sequence_len" for parameter i
RECURSIVE ScanProducers(_, _, _, _, _)
ScanProducers(st, input_fun_index, i, function_index, functions_in_sequence_len) ==
    IF function_index > functions_in_sequence_len THEN st
    ELSE
    IF moved_already(st, function_index)
    THEN ScanProducers(st, input_fun_index, i, function_index + 1,
                       functions_in_sequence_len)
    ELSE
    LET found_function == st.new_sequence.functions[function_index]
        dependency_index == check_dependency(found_function.func, input_fun_index, i)
    IN IF dependency_index = None
       THEN ScanProducers(st, input_fun_index, i, function_index + 1,
                          functions_in_sequence_len)
       ELSE
       LET dependency_ == api_dependencies[dependency_index[1]]
           current_ty == api_functions[input_fun_index].inputs[i]
           added == [st EXCEPT !.new_sequence =
                                  _add_dependency(@, dependency_index[1])]
       IN IF borrow_conflict(st, function_index, current_ty, dependency_.call_type)
          THEN ScanProducers([added EXCEPT !.dependency_flag = FALSE],
                             input_fun_index, i, function_index + 1,
                             functions_in_sequence_len)
          ELSE bind_producer(added, function_index, current_ty,
                             dependency_.call_type)

\* a fuzzable parameter without an encoding is looked for among the results
\* of the sequence
ResolveParam_searches_unencodable(st, input_fun_index, i, functions_in_sequence_len) ==
    LET input_function == api_functions[input_fun_index]
        current_ty == input_function.inputs[i]
        encodable ==
            /\ is_fuzzable_type(current_ty, Some(input_function.generic_substitutions))
            /\ fuzzable_type_of(current_ty,
                                input_function.generic_substitutions).kind
                  # "NoFuzzable"
    IN IF encodable
       THEN [st EXCEPT
               !.new_sequence.fuzzable_params =
                   Append(@, fuzzable_type_of(current_ty,
                                              input_function.generic_substitutions)),
               !.api_call = _add_param(@, "_FuzzableType",
                                       Len(st.new_sequence.fuzzable_params) + 1,
                                       "_DirectCall")]
       ELSE LET settle(scanned) ==
                    IF scanned.dependency_flag THEN scanned
                    ELSE [scanned EXCEPT !.alive = FALSE]
            IN settle(ScanProducers([st EXCEPT !.dependency_flag = FALSE],
                                    input_fun_index, i, 1,
                                    functions_in_sequence_len))

\* a fuzzable parameter refers to the slot before the one it appends
ResolveParam_previous_slot(st, input_fun_index, i, functions_in_sequence_len) ==
    LET input_function == api_functions[input_fun_index]
        current_ty == input_function.inputs[i]
    IN IF is_fuzzable_type(current_ty, Some(input_function.generic_substitutions))
       THEN LET current_fuzzable_index == Len(st.new_sequence.fuzzable_params)
                fuzzable_type ==
                    fuzzable_type_of(current_ty, input_function.generic_substitutions)
            IN IF fuzzable_type.kind = "NoFuzzable"
               THEN [st EXCEPT !.alive = FALSE]
               ELSE [st EXCEPT
                       !.new_sequence.fuzzable_params = Append(@, fuzzable_type),
                       !.api_call = _add_param(@, "_FuzzableType",
                                               current_fuzzable_index, "_DirectCall")]
       ELSE LET settle(scanned) ==
                    IF scanned.dependency_flag THEN scanned
                    ELSE [scanned EXCEPT !.alive = FALSE]
            IN settle(ScanProducers([st EXCEPT !.dependency_flag = FALSE],
                                    input_fun_index, i, 1,
                                    functions_in_sequence_len))

\* the body of "for (i, current_ty) in input_params.iter().enumerate()";
\* st.alive is FALSE once the method has returned None
ResolveParam(st, input_fun_index, i, functions_in_sequence_len) ==
    LET input_function == api_functions[input_fun_index]
        current_ty == input_function.inputs[i]
    IN IF is_fuzzable_type(current_ty, Some(input_function.generic_substitutions))
       THEN LET current_fuzzable_index == Len(st.new_sequence.fuzzable_params) + 1
                fuzzable_type ==
                    fuzzable_type_of(current_ty, input_function.generic_substitutions)
            IN IF fuzzable_type.kind = "NoFuzzable"
               THEN [st EXCEPT !.alive = FALSE]
               ELSE [st EXCEPT
                       !.new_sequence.fuzzable_params = Append(@, fuzzable_type),
                       !.api_call = _add_param(@, "_FuzzableType",
                                               current_fuzzable_index, "_DirectCall")]
       ELSE LET settle(scanned) ==
                    IF scanned.dependency_flag THEN scanned
                    ELSE [scanned EXCEPT !.alive = FALSE]
            IN settle(ScanProducers([st EXCEPT !.dependency_flag = FALSE],
                                    input_fun_index, i, 1,
                                    functions_in_sequence_len))

RECURSIVE ResolveParams(_, _, _, _)
ResolveParams(st, input_fun_index, i, functions_in_sequence_len) ==
    IF ~st.alive \/ i > Len(api_functions[input_fun_index].inputs) THEN st
    ELSE ResolveParams(ResolveParam(st, input_fun_index, i, functions_in_sequence_len),
                       input_fun_index, i + 1, functions_in_sequence_len)

\* the admission without its last test, the one on the number of
\* variable-length fuzzable parameters
is_fun_satisfied_any_dynamic(input_fun_index, sequence) ==
    LET st0 == [new_sequence |-> sequence,
                api_call |-> ApiCall_new(input_fun_index),
                _moved_indexes |-> {}, _multi_mut |-> {}, _immutable_borrow |-> {},
                dependency_flag |-> FALSE, alive |-> TRUE]
    IN IF api_functions[input_fun_index].inputs = <<>>
       THEN Some(_add_fn(sequence, st0.api_call))
       ELSE LET finish(st) ==
                    IF ~st.alive THEN None
                    ELSE Some(_insert_move_indexes(
                                  _add_fn(st.new_sequence, st.api_call),
                                  st._moved_indexes))
            IN finish(ResolveParams(st0, input_fun_index, 1,
                                    Len(sequence.functions)))

is_fun_satisfied(input_fun_index, sequence) ==
    LET st0 == [new_sequence |-> sequence,
                api_call |-> ApiCall_new(input_fun_index),
                _moved_indexes |-> {}, _multi_mut |-> {}, _immutable_borrow |-> {},
                dependency_flag |-> FALSE, alive |-> TRUE]
    IN IF api_functions[input_fun_index].inputs = <<>>
       THEN Some(_add_fn(sequence, st0.api_call))
       ELSE LET admit(new_sequence) ==
                    IF _contains_multi_dynamic_length_fuzzable(new_sequence)
                    THEN None ELSE Some(new_sequence)
                finish(st) ==
                    IF ~st.alive THEN None
                    ELSE admit(_insert_move_indexes(
                                   _add_fn(st.new_sequence, st.api_call),
                                   st._moved_indexes))
            IN finish(ResolveParams(st0, input_fun_index, 1,
                                    Len(sequence.functions)))

\* is_sequence_ended: the last call of the sequence is an end function
is_sequence_ended(api_sequence) ==
    /\ api_sequence.functions # <<>>
    /\ _is_end_function(
           api_functions[api_sequence.functions[Len(api_sequence.functions)].func])

reset_visited == [i \in 1..Len(api_functions) |-> FALSE]

_visited_nodes_num(visited) ==
    Cardinality({i \in 1..Len(visited) : visited[i]})

(***************************************************************************)
(* bfs.  g is the part of the graph the loops change: the pool and the      *)
(* visited flags.                                                           *)
(***************************************************************************)
\* every function is appended to the frontier sequence, admitted or not
RECURSIVE bfs_functions_unchecked(_, _, _, _)
bfs_functions_unchecked(g, sequence, api_func_index, fast_mode) ==
    IF api_func_index > Len(g.visited) THEN g
    ELSE bfs_functions_unchecked(
             [g EXCEPT !.pool = Append(@, _add_fn(sequence,
                                                  ApiCall_new(api_func_index))),
                       !.visited[api_func_index] = TRUE],
             sequence, api_func_index + 1, fast_mode)

\* a function that is visited is skipped, in fast mode or not
RECURSIVE bfs_functions_always_fast(_, _, _, _)
bfs_functions_always_fast(g, sequence, api_func_index, fast_mode) ==
    IF api_func_index > Len(g.visited) THEN g
    ELSE IF g.visited[api_func_index]
    THEN bfs_functions_always_fast(g, sequence, api_func_index + 1, fast_mode)
    ELSE LET push(new_sequence) ==
                 IF new_sequence = None THEN g
                 ELSE [g EXCEPT !.pool = Append(@, new_sequence[1]),
                                !.visited[api_func_index] = TRUE]
         IN bfs_functions_always_fast(
                push(is_fun_satisfied(api_func_index, sequence)),
                sequence, api_func_index + 1, fast_mode)

\* the loop "for api_func_index in 0..api_function_num" for one frontier sequence
RECURSIVE bfs_functions(_, _, _, _)
bfs_functions(g, sequence, api_func_index, fast_mode) ==
    \* api_function_num: g.visited holds one flag per function
    IF api_func_index > Len(g.visited) THEN g
    ELSE IF fast_mode /\ g.visited[api_func_index]
    THEN bfs_functions(g, sequence, api_func_index + 1, fast_mode)
    ELSE LET push(new_sequence) ==
                 IF new_sequence = None THEN g
                 ELSE [g EXCEPT !.pool = Append(@, new_sequence[1]),
                                !.visited[api_func_index] = TRUE]
         IN bfs_functions(push(is_fun_satisfied(api_func_index, sequence)),
                          sequence, api_func_index + 1, fast_mode)

\* the tuning table CAN_COVER_NODES: the number of functions of a library
\* that count as full coverage
CAN_COVER_NODES == [regex |-> 96, serde_json |-> 41, clap |-> 66]

check_all_visited(visited) ==
    LET visited_nodes == Cardinality({i \in 1..Len(visited) : visited[i]})
    IN IF _crate_name \in DOMAIN CAN_COVER_NODES
       THEN visited_nodes = CAN_COVER_NODES[_crate_name]
       ELSE visited_nodes = Len(visited)

\* the sequences of length len that the pass extends
\* the frontier without the test of the last call
bfs_frontier_ended_included(pool, len, stop_at_end_function) ==
    SelectSeq(pool, LAMBDA sequence : Len(sequence.functions) = len)

bfs_frontier(pool, len, stop_at_end_function) ==
    SelectSeq(pool, LAMBDA sequence :
        /\ ~(stop_at_end_function /\ is_sequence_ended(sequence))
        /\ Len(sequence.functions) = len)

RECURSIVE bfs_sequences(_, _, _, _)
bfs_sequences(g, tmp_sequences, n, fast_mode) ==
    IF n > Len(tmp_sequences) THEN g
    ELSE bfs_sequences(bfs_functions(g, tmp_sequences[n], 1, fast_mode),
                       tmp_sequences, n + 1, fast_mode)

\* one pass more: the sequences of length max_len are extended as well
RECURSIVE bfs_passes_one_more(_, _, _, _, _)
bfs_passes_one_more(g, len, max_len, stop_at_end_function, fast_mode) ==
    IF len > max_len THEN g
    ELSE bfs_passes_one_more(
             bfs_sequences(g, bfs_frontier(g.pool, len, stop_at_end_function),
                           1, fast_mode),
             len + 1, max_len, stop_at_end_function, fast_mode)

\* the loop "for len in 0..max_len"
RECURSIVE bfs_passes(_, _, _, _, _)
bfs_passes(g, len, max_len, stop_at_end_function, fast_mode) ==
    IF len >= max_len THEN g
    ELSE bfs_passes(
             bfs_sequences(g, bfs_frontier(g.pool, len, stop_at_end_function),
                           1, fast_mode),
             len + 1, max_len, stop_at_end_function, fast_mode)

bfs(max_len, stop_at_end_function, fast_mode) ==
    IF max_len < 1
    THEN [pool |-> api_sequences, visited |-> reset_visited]
    ELSE bfs_passes([pool |-> Append(api_sequences, ApiSequence_new),
                     visited |-> reset_visited],
                    0, max_len, stop_at_end_function, fast_mode)

(***************************************************************************)
(* _try_deep_bfs.  d carries the pool, the visited flags, the two           *)
(* already_covered sets and has_new_coverage_flag.                          *)
(***************************************************************************)
RECURSIVE deep_functions(_, _, _)
deep_functions(d, sequence, api_func_index) ==
    \* api_function_num: d.visited holds one flag per function
    IF api_func_index > Len(d.visited) THEN d
    ELSE LET cover(new_sequence, covered_nodes, covered_edges) ==
                 [d EXCEPT
                    !.has_new_coverage_flag =
                        \/ @
                        \/ ~(covered_nodes \subseteq d.already_covered_nodes)
                        \/ ~(covered_edges \subseteq d.already_covered_edges),
                    !.already_covered_nodes = @ \cup covered_nodes,
                    !.already_covered_edges = @ \cup covered_edges,
                    !.pool = Append(@, new_sequence),
                    !.visited[api_func_index] = TRUE]
             push(new_sequence) ==
                 IF new_sequence = None THEN d
                 ELSE cover(new_sequence[1],
                            _get_contained_api_functions(new_sequence[1]),
                            new_sequence[1]._covered_dependencies)
         IN deep_functions(push(is_fun_satisfied(api_func_index, sequence)),
                           sequence, api_func_index + 1)

RECURSIVE deep_sequences(_, _, _)
deep_sequences(d, tmp_sequences, n) ==
    IF n > Len(tmp_sequences) THEN d
    ELSE deep_sequences(deep_functions(d, tmp_sequences[n], 1), tmp_sequences, n + 1)

\* the loop without the break of a pass that brought no new coverage
RECURSIVE deep_passes_to_max_len(_, _, _, _)
deep_passes_to_max_len(d, len, max_len, max_sequence_number) ==
    IF len >= max_len THEN d
    ELSE IF len > 2 /\ Len(d.pool) * _visited_nodes_num(d.visited)
                          >= max_sequence_number
    THEN d
    ELSE deep_passes_to_max_len(
             deep_sequences([d EXCEPT !.has_new_coverage_flag = FALSE],
                            bfs_frontier(d.pool, len, TRUE), 1),
             len + 1, max_len, max_sequence_number)

\* the loop "for len in 0..max_len" with its two break statements
RECURSIVE deep_passes(_, _, _, _)
deep_passes(d, len, max_len, max_sequence_number) ==
    IF len >= max_len THEN d
    ELSE IF len > 2 /\ Len(d.pool) * _visited_nodes_num(d.visited)
                          >= max_sequence_number
    THEN d
    ELSE LET continue(pass) ==
                 IF ~pass.has_new_coverage_flag THEN pass
                 ELSE deep_passes(pass, len + 1, max_len, max_sequence_number)
         IN continue(deep_sequences([d EXCEPT !.has_new_coverage_flag = FALSE],
                                    bfs_frontier(d.pool, len, TRUE), 1))

_try_deep_bfs(max_sequence_number) ==
    IF Len(api_functions) < 1
    THEN [pool |-> <<>>, visited |-> reset_visited]
    ELSE LET result(d) == [pool |-> d.pool, visited |-> d.visited]
         IN result(deep_passes([pool |-> <<ApiSequence_new>>,
                                visited |-> reset_visited,
                                already_covered_nodes |-> {},
                                already_covered_edges |-> {},
                                has_new_coverage_flag |-> FALSE],
                               0, Len(api_functions), max_sequence_number))

(***************************************************************************)
(* real_world.  The corpus file is None when it cannot be opened, or the   *)
(* list of its lines; a line is None when it cannot be read, or the list of *)
(* its fields between "|"; a field is the list of its words between " ",    *)
(* of which those beside a "|" may be empty.                                *)
(***************************************************************************)
\* self.api_functions.iter().enumerate().find(|(_, x)| x.full_name == name)
find_function(name) ==
    LET hits == {i \in 1..Len(api_functions) : api_functions[i].full_name = name}
    IN IF hits = {} THEN None
       ELSE Some(CHOOSE i \in hits : \A other \in hits : i <= other)

\* no chain is dropped
retained_chains_all(sequences) == sequences

\* the chains that survive "if functions.iter().any(..) { continue; }"
retained_chains(sequences) ==
    SelectSeq(sequences, LAMBDA functions :
        \A n \in 1..Len(functions) : find_function(functions[n]) # None)

\* the loop goes on to the next name after a call that is not admitted
RECURSIVE replay_chain_skipping(_, _, _, _)
replay_chain_skipping(g, each_sequence, n, sequence) ==
    IF n > Len(each_sequence) THEN g
    ELSE LET push(f, new_sequence) ==
                 IF new_sequence = None
                 THEN replay_chain_skipping(g, each_sequence, n + 1, sequence)
                 ELSE replay_chain_skipping(
                          [g EXCEPT !.pool = Append(@, new_sequence[1]),
                                    !.visited[f] = TRUE],
                          each_sequence, n + 1, new_sequence[1])
             call(f) ==
                 IF f = None THEN g
                 ELSE push(f[1], is_fun_satisfied(f[1], sequence))
         IN call(find_function(each_sequence[n]))

\* the loop "for func_path in each_sequence"
RECURSIVE replay_chain(_, _, _, _)
replay_chain(g, each_sequence, n, sequence) ==
    IF n > Len(each_sequence) THEN g
    ELSE LET push(f, new_sequence) ==
                 IF new_sequence = None THEN g
                 ELSE replay_chain(
                          [g EXCEPT !.pool = Append(@, new_sequence[1]),
                                    !.visited[f] = TRUE],
                          each_sequence, n + 1, new_sequence[1])
             call(f) ==
                 IF f = None THEN g
                 ELSE push(f[1], is_fun_satisfied(f[1], sequence))
         IN call(find_function(each_sequence[n]))

RECURSIVE replay_chains(_, _, _)
replay_chains(g, sequences, index) ==
    IF index > Len(sequences) THEN g
    ELSE replay_chains(replay_chain(g, sequences[index], 1, ApiSequence_new),
                       sequences, index + 1)


\* a + b on i32, b not negative: when the sum is above i32::MAX a build with
\* overflow checks panics (None) and a build without them wraps
add_i32(a, b, overflow_checks) ==
    IF a <= 2147483647 - b THEN Some(a + b)
    ELSE IF overflow_checks THEN None
    ELSE Some((a - 2147483647 - 1) + (b - 2147483647 - 1))

\* the loop "for func in functions.clone()" from name k of the line on: the
\* name is counted with parsed_number, added to what the map holds for it
RECURSIVE count_functions(_, _, _, _, _)
count_functions(map, functions, k, parsed_number, overflow_checks) ==
    IF k > Len(functions) THEN Some(map)
    ELSE LET func == functions[k]
             insert(number) ==
                 IF number = None THEN None
                 ELSE count_functions(
                          [name \in DOMAIN map \cup {func} |->
                              IF name = func THEN number[1] ELSE map[name]],
                          functions, k + 1, parsed_number, overflow_checks)
         IN IF func \in DOMAIN map
            THEN insert(add_i32(map[func], parsed_number, overflow_checks))
            ELSE insert(Some(parsed_number))

\* the map after the lines from line n on: a line that is dropped counts
\* nothing
RECURSIVE count_lines(_, _, _, _)
count_lines(map, lines, n, overflow_checks) ==
    IF n > Len(lines) THEN Some(map)
    ELSE IF retained_chains(<<lines[n].functions>>) = <<>>
    THEN count_lines(map, lines, n + 1, overflow_checks)
    ELSE LET next(counted) ==
                 IF counted = None THEN None
                 ELSE count_lines(counted[1], lines, n + 1, overflow_checks)
         IN next(count_functions(map, lines[n].functions, 1,
                                 lines[n].parsed_number, overflow_checks))

\* apis_existing_in_corpus_map after the loop over the lines of the corpus
\* file; a line is its parsed_number and its list of function names.  None
\* when an addition panics
apis_existing_in_corpus_map(lines, overflow_checks) ==
    count_lines([name \in {} |-> 0], lines, 1, overflow_checks)

\* the check after the loop: "panic!" when a counted name is not in the
\* catalog
corpus_panics(map) ==
    \E name \in DOMAIN map : find_function(name) = None

\* char::is_digit(10)
is_digit(c) == c \in {"0", "1", "2", "3", "4", "5", "6", "7", "8", "9"}

digit_value(c) ==
    CASE c = "0" -> 0 [] c = "1" -> 1 [] c = "2" -> 2 [] c = "3" -> 3
      [] c = "4" -> 4 [] c = "5" -> 5 [] c = "6" -> 6 [] c = "7" -> 7
      [] c = "8" -> 8 [] c = "9" -> 9

\* the digits of word from character n on
RECURSIVE word_digits(_, _)
word_digits(word, n) ==
    IF n > Len(word) THEN ""
    ELSE (IF is_digit(SubSeq(word, n, n)) THEN SubSeq(word, n, n) ELSE "")
            \o word_digits(word, n + 1)

\* freq.chars().filter(|c| c.is_digit(10)).collect(), from word n of the
\* field on
RECURSIVE cnt_str(_, _)
cnt_str(freq, n) ==
    IF n > Len(freq) THEN ""
    ELSE word_digits(freq[n], 1) \o cnt_str(freq, n + 1)

\* str::parse::<i32> of a string of digits from character n on, number being
\* the value of the characters before: None when the value is above
\* i32::MAX
RECURSIVE parse_digits(_, _, _)
parse_digits(digits, n, number) ==
    IF n > Len(digits) THEN Some(number)
    ELSE LET d == digit_value(SubSeq(digits, n, n))
         IN IF number > (2147483647 - d) \div 10 THEN None
            ELSE parse_digits(digits, n + 1, number * 10 + d)

\* cnt_str.parse(): the empty string is not a number
parse(digits) == IF digits = "" THEN None ELSE parse_digits(digits, 1, 0)

\* the body of the loop over the lines up to the test on the names: None when
\* line.unwrap(), fields.get(1).unwrap() or cnt_str.parse().unwrap() panics,
\* else parsed_number and functions, the words of the last field that have
\* more than one character
read_line(line) ==
    IF line = None THEN None
    ELSE LET fields == line[1]
         IN IF Len(fields) < 2 THEN None
            ELSE LET parsed_number == parse(cnt_str(fields[2], 1))
                 IN IF parsed_number = None THEN None
                    ELSE Some([parsed_number |-> parsed_number[1],
                               functions |->
                                   SelectSeq(fields[Len(fields)],
                                             LAMBDA x : Len(x) > 1)])

\* the lines as the loop reads them: None when File::open(..).unwrap()
\* panics or the loop panics at a line
read_lines(file) ==
    IF file = None THEN None
    ELSE IF \E n \in 1..Len(file[1]) : read_line(file[1][n]) = None
         THEN None
         ELSE Some([n \in 1..Len(file[1]) |-> read_line(file[1][n])[1]])

\* the list of function names of every line
ChainsOf(lines) == [n \in 1..Len(lines) |-> lines[n].functions]

\* real_world: None when the run aborts, which it does before it clears the
\* pool, so that which of the panics of the loop comes first makes no
\* difference; else the pool and the flags of the replay of the retained
\* chains.  overflow_checks says how the program was built
real_world(file, overflow_checks) ==
    LET lines == read_lines(file)
        check(map) ==
            IF map = None THEN None
            ELSE IF corpus_panics(map[1]) THEN None
            ELSE Some(replay_chains([pool |-> <<>>, visited |-> reset_visited],
                                    retained_chains(ChainsOf(lines[1])), 1))
    IN IF lines = None THEN None
       ELSE check(apis_existing_in_corpus_map(lines[1], overflow_checks))

(***************************************************************************)
(* Merging and dead calls (api_sequence.rs).                                *)
(***************************************************************************)
\* dead_code[j]: no call of the sequence takes the result of call j
_dead_code(sequence) ==
    [j \in 1..Len(sequence.functions) |->
        ~\E c \in 1..Len(sequence.functions) :
            \E k \in 1..Len(sequence.functions[c].params) :
                /\ sequence.functions[c].params[k].param_type = "_FunctionReturn"
                /\ sequence.functions[c].params[k].index = j]

_contains_dead_code_except_last_one(sequence) ==
    \E j \in 1..(Len(sequence.functions) - 1) : _dead_code(sequence)[j]

\* the calls of other follow the calls of sequence; call positions and
\* fuzzable slots of other are renumbered
_merge_another_sequence(sequence, other) ==
    LET first_func_number == Len(sequence.functions)
        first_fuzzable_number == Len(sequence.fuzzable_params)
        shifted(param) ==
            [param EXCEPT !.index =
                IF param.param_type = "_FunctionReturn"
                THEN @ + first_func_number ELSE @ + first_fuzzable_number]
        moved_call(api_call) ==
            [api_call EXCEPT !.params =
                [k \in 1..Len(api_call.params) |-> shifted(api_call.params[k])]]
    IN [functions |-> sequence.functions \o
                      [c \in 1..Len(other.functions) |-> moved_call(other.functions[c])],
        fuzzable_params |-> sequence.fuzzable_params \o other.fuzzable_params,
        _covered_dependencies |->
            sequence._covered_dependencies \cup other._covered_dependencies,
        _moved |-> sequence._moved \cup {m + first_func_number : m \in other._moved}]

RECURSIVE _merge_sequences(_)
_merge_sequences(sequences) ==
    IF sequences = <<>> THEN ApiSequence_new
    ELSE IF Len(sequences) = 1 THEN sequences[1]
    ELSE _merge_sequences(
             <<_merge_another_sequence(sequences[1], sequences[2])>>
                 \o SubSeq(sequences, 3, Len(sequences)))

(***************************************************************************)
(* The coverage-repair pass.                                                *)
(***************************************************************************)
\* the pool positions of the sequences that may be merged
_choose_candidate_sequence_for_merge(pool) ==
    SelectSeq(Iota(Len(pool)), LAMBDA i :
        /\ ~is_sequence_ended(pool[i])
        /\ Len(pool[i].functions) > 0
        /\ ~_contains_dead_code_except_last_one(pool[i]))

\* the loop over the candidates for parameter i of unvisited_node:
\* tmp_dependent_index, 0 while can_find_dependency_flag is false
RECURSIVE find_dependent_index(_, _, _, _, _, _)
find_dependent_index(pool, candidate_sequences, n, unvisited_node, i, tmp) ==
    IF n > Len(candidate_sequences) THEN tmp
    ELSE LET candidate_sequence == pool[candidate_sequences[n]]
             output_index == _last_api_func_index(candidate_sequence)[1]
         IN IF check_dependency(output_index, unvisited_node, i) = None
            THEN find_dependent_index(pool, candidate_sequences, n + 1,
                                      unvisited_node, i, tmp)
            ELSE IF ~_has_no_fuzzables(candidate_sequence)
            THEN candidate_sequences[n]
            ELSE find_dependent_index(pool, candidate_sequences, n + 1,
                                      unvisited_node, i, candidate_sequences[n])

\* the parameters of unvisited_node that need a producer
needy_params(unvisited_node) ==
    SelectSeq(Iota(Len(api_functions[unvisited_node].inputs)), LAMBDA i :
        ~is_fuzzable_type(api_functions[unvisited_node].inputs[i], None))

\* Some(dependent_sequence_indexes) when can_be_covered_flag holds
dependent_sequence_indexes(pool, candidate_sequences, unvisited_node) ==
    LET needy == needy_params(unvisited_node)
        found == [n \in 1..Len(needy) |->
                     find_dependent_index(pool, candidate_sequences, 1,
                                          unvisited_node, needy[n], 0)]
    IN IF \E n \in 1..Len(found) : found[n] = 0 THEN None ELSE Some(found)

\* one iteration of "for unvisited_node in &unvisited_nodes"; r carries the
\* pool, the visited flags and covered_node_this_iteration
cover_node(r, candidate_sequences, unvisited_node) ==
    LET push(generated_sequence) ==
            IF generated_sequence = None THEN r
            ELSE [r EXCEPT
                    !.pool = Append(@, generated_sequence[1]),
                    !.visited[unvisited_node] = TRUE,
                    !.covered_node_this_iteration = @ \cup {unvisited_node}]
        dependent_sequences(indexes) ==
            [n \in 1..Len(indexes) |-> r.pool[indexes[n]]]
        merge(indexes) ==
            IF indexes = None THEN r
            ELSE push(is_fun_satisfied(
                          unvisited_node,
                          _merge_sequences(dependent_sequences(indexes[1]))))
    IN merge(dependent_sequence_indexes(r.pool, candidate_sequences,
                                        unvisited_node))

RECURSIVE cover_nodes(_, _, _, _)
cover_nodes(r, candidate_sequences, unvisited_nodes, n) ==
    IF n > Len(unvisited_nodes) THEN r
    ELSE cover_nodes(cover_node(r, candidate_sequences, unvisited_nodes[n]),
                     candidate_sequences, unvisited_nodes, n + 1)

\* a single pass over the unvisited functions, whatever it covers
cover_passes_once(r, unvisited_nodes, rounds) ==
    IF rounds = 0 THEN r
    ELSE cover_nodes([r EXCEPT !.covered_node_this_iteration = {}],
                     _choose_candidate_sequence_for_merge(r.pool),
                     unvisited_nodes, 1)

\* the loop "for _ in 0..unvisited_nodes.len()"; unvisited_nodes lists the
\* set in its iteration order
RECURSIVE cover_passes(_, _, _)
cover_passes(r, unvisited_nodes, rounds) ==
    IF rounds = 0 THEN r
    ELSE LET continue(pass) ==
                 IF pass.covered_node_this_iteration = {} THEN pass
                 ELSE cover_passes(
                          pass,
                          SelectSeq(unvisited_nodes, LAMBDA node :
                              node \notin pass.covered_node_this_iteration),
                          rounds - 1)
         IN continue(cover_nodes(
                         [r EXCEPT !.covered_node_this_iteration = {}],
                         _choose_candidate_sequence_for_merge(r.pool),
                         unvisited_nodes, 1))

_try_to_cover_unvisited_nodes(pool, visited, unvisited_nodes) ==
    LET result(r) == [pool |-> r.pool, visited |-> r.visited]
    IN result(cover_passes([pool |-> pool, visited |-> visited,
                            covered_node_this_iteration |-> {}],
                           unvisited_nodes, Len(unvisited_nodes)))

(***************************************************************************)
(* ReverseApiSequence (api_sequence.rs): the calls in reverse order, the    *)
(* target of the construction first.                                        *)
(***************************************************************************)
ReverseApiSequence_new ==
    [functions |-> <<>>, fuzzable_params |-> <<>>, _covered_dependencies |-> {}]

\* the calls of other follow the calls of sequence, renumbered
combine(sequence, other) ==
    LET first_func_number == Len(sequence.functions)
        first_fuzzable_number == Len(sequence.fuzzable_params)
        shifted(param) ==
            [param EXCEPT !.index =
                IF param.param_type = "_FunctionReturn"
                THEN @ + first_func_number ELSE @ + first_fuzzable_number]
        moved_call(api_call) ==
            [api_call EXCEPT !.params =
                [k \in 1..Len(api_call.params) |-> shifted(api_call.params[k])]]
    IN [functions |-> sequence.functions \o
                      [c \in 1..Len(other.functions) |-> moved_call(other.functions[c])],
        fuzzable_params |-> sequence.fuzzable_params \o other.fuzzable_params,
        _covered_dependencies |->
            sequence._covered_dependencies \cup other._covered_dependencies]

\* the forward sequence: the call at reverse position c moves to n + 1 - c
_generate_api_sequence(reverse_sequence) ==
    LET n == Len(reverse_sequence.functions)
        turned(param) ==
            [param EXCEPT !.index =
                IF param.param_type = "_FunctionReturn" THEN n + 1 - @ ELSE @]
        turned_call(api_call) ==
            [api_call EXCEPT !.params =
                [k \in 1..Len(api_call.params) |-> turned(api_call.params[k])]]
        functions == [c \in 1..n |-> turned_call(reverse_sequence.functions[n + 1 - c])]
    IN [functions |-> functions,
        fuzzable_params |-> reverse_sequence.fuzzable_params,
        _covered_dependencies |-> reverse_sequence._covered_dependencies,
        _moved |-> {j \in 1..n :
                       \E c \in 1..n : \E k \in 1..Len(functions[c].params) :
                           /\ functions[c].params[k].param_type = "_FunctionReturn"
                           /\ functions[c].params[k].index = j
                           /\ functions[c].params[k].call_type = "_Move"}]

(***************************************************************************)
(* reverse_construct.  rs is the state of the loop over the parameters:     *)
(* new_reverse_sequence, api_call, param_reverse_sequences,                 *)
(* current_param_index and whether the method has not yet returned None.    *)
(***************************************************************************)
RECURSIVE reverse_construct(_)

\* current_param_index stays where it is
bind_param_sequence_index_kept(rs, dependency_index, param_seq) ==
    [rs EXCEPT
       !.param_reverse_sequences = Append(@, param_seq),
       !.new_reverse_sequence = _add_dependency(@, dependency_index),
       !.dependency_flag = TRUE,
       !.api_call = _add_param(@, "_FunctionReturn", rs.current_param_index,
                               api_dependencies[dependency_index].call_type)]

\* what follows a successful recursive call: the sub-sequence is kept, the
\* parameter refers to its first call and current_param_index moves past it
bind_param_sequence(rs, dependency_index, param_seq) ==
    [rs EXCEPT
       !.param_reverse_sequences = Append(@, param_seq),
       !.new_reverse_sequence = _add_dependency(@, dependency_index),
       !.dependency_flag = TRUE,
       !.api_call = _add_param(@, "_FunctionReturn", rs.current_param_index,
                               api_dependencies[dependency_index].call_type),
       !.current_param_index = @ + Len(param_seq.functions)]

\* the loop goes on past input_fun_index and visits every function
output_functions_searched_all(input_fun_index) == 1..Len(api_functions)

\* the functions the loop over the catalog visits: it starts at the first
\* function and breaks when it arrives at input_fun_index
output_functions_searched(input_fun_index) ==
    {output_fun_index \in 1..Len(api_functions) :
        output_fun_index < input_fun_index}

\* the loop "for (output_fun_index, _) in self.api_functions.iter().enumerate()"
RECURSIVE ScanOutputFunctions(_, _, _, _)
ScanOutputFunctions(rs, input_fun_index, input_param_index_, output_fun_index) ==
    IF output_fun_index \notin output_functions_searched(input_fun_index) THEN rs
    ELSE LET dependency_index ==
                 check_dependency(output_fun_index, input_fun_index, input_param_index_)
         IN IF dependency_index = None
            THEN ScanOutputFunctions(rs, input_fun_index, input_param_index_,
                                     output_fun_index + 1)
            ELSE LET bind(param_seq) ==
                         IF param_seq = None
                         THEN ScanOutputFunctions(rs, input_fun_index,
                                                  input_param_index_,
                                                  output_fun_index + 1)
                         ELSE bind_param_sequence(rs, dependency_index[1],
                                                  param_seq[1])
                 IN bind(reverse_construct(output_fun_index))

ReverseParam(rs, input_fun_index, input_param_index_) ==
    LET current_ty == api_functions[input_fun_index].inputs[input_param_index_]
    IN IF is_fuzzable_type(current_ty, None)
       THEN LET current_fuzzable_index ==
                    Len(rs.new_reverse_sequence.fuzzable_params) + 1
                fuzzable_type == fuzzable_type_of(current_ty, NoSubstitutions)
            IN IF fuzzable_type.kind = "NoFuzzable"
               THEN [rs EXCEPT !.alive = FALSE]
               ELSE [rs EXCEPT
                       !.new_reverse_sequence.fuzzable_params =
                           Append(@, fuzzable_type),
                       !.api_call = _add_param(@, "_FuzzableType",
                                               current_fuzzable_index, "_DirectCall")]
       ELSE LET settle(scanned) ==
                    IF scanned.dependency_flag THEN scanned
                    ELSE [scanned EXCEPT !.alive = FALSE]
            IN settle(ScanOutputFunctions([rs EXCEPT !.dependency_flag = FALSE],
                                          input_fun_index, input_param_index_, 1))

RECURSIVE ReverseParams(_, _, _)
ReverseParams(rs, input_fun_index, input_param_index_) ==
    IF ~rs.alive \/ input_param_index_ > Len(api_functions[input_fun_index].inputs)
    THEN rs
    ELSE ReverseParams(ReverseParam(rs, input_fun_index, input_param_index_),
                       input_fun_index, input_param_index_ + 1)

RECURSIVE CombineAll(_, _, _)
CombineAll(new_reverse_sequence, param_reverse_sequences, n) ==
    IF n > Len(param_reverse_sequences) THEN new_reverse_sequence
    ELSE CombineAll(combine(new_reverse_sequence, param_reverse_sequences[n]),
                    param_reverse_sequences, n + 1)

reverse_construct(tail_api_index) ==
    LET finish(rs) ==
            IF ~rs.alive THEN None
            ELSE Some(CombineAll(
                     [rs.new_reverse_sequence EXCEPT
                         !.functions = Append(@, rs.api_call)],
                     rs.param_reverse_sequences, 1))
    IN finish(ReverseParams([new_reverse_sequence |-> ReverseApiSequence_new,
                             api_call |-> ApiCall_new(tail_api_index),
                             param_reverse_sequences |-> <<>>,
                             current_param_index |-> 2,
                             dependency_flag |-> FALSE, alive |-> TRUE],
                            tail_api_index, 1))

(***************************************************************************)
(* _heuristic_choose.  h is the state of the outer loop: the nodes and       *)
(* edges covered by the sequences chosen so far, the indexes chosen, in the  *)
(* order they were chosen, try_to_find_dynamic_length_flag, and whether the  *)
(* loop was left by a break.                                                 *)
(***************************************************************************)
\* every sequence of the pool counts as a sequence valid for fuzzing
valid_fuzz_sequence_unchecked(sequence) == TRUE

\* "!sequence._has_no_fuzzables() &&
\*  !sequence._contains_dead_code_except_last_one(self)"
valid_fuzz_sequence(sequence) ==
    /\ ~_has_no_fuzzables(sequence)
    /\ ~_contains_dead_code_except_last_one(sequence)

\* the inner loop without the two tests of the tier
RECURSIVE choose_candidate_any_tier(_, _, _)
choose_candidate_any_tier(h, cur, j) ==
    IF j > Len(api_sequences) THEN cur
    ELSE LET api_sequence == api_sequences[j]
             compare(nodes, edges, sequence_len) ==
                 IF \/ nodes < cur.nodes
                    \/ nodes = cur.nodes /\ edges < cur.edges
                 THEN cur
                 ELSE IF \/ nodes > cur.nodes
                         \/ nodes = cur.nodes /\ edges > cur.edges
                         \/ nodes = cur.nodes /\ edges = cur.edges
                                              /\ sequence_len < cur.len
                      THEN [index |-> j, nodes |-> nodes, edges |-> edges,
                            len |-> sequence_len]
                      ELSE cur
             candidate ==
                 IF \/ j \in h.already_chosen_sequences
                    \/ ~valid_fuzz_sequence(api_sequence)
                 THEN cur
                 ELSE compare(
                        Cardinality(_get_contained_api_functions(api_sequence)
                                    \ h.already_covered_nodes),
                        Cardinality(api_sequence._covered_dependencies
                                    \ h.already_covered_edges),
                        Len(api_sequence.functions))
         IN choose_candidate_any_tier(h, candidate, j + 1)

\* the inner loop with a full tie going to the later sequence
RECURSIVE choose_candidate_later_tie(_, _, _)
choose_candidate_later_tie(h, cur, j) ==
    IF j > Len(api_sequences) THEN cur
    ELSE LET api_sequence == api_sequences[j]
             compare(nodes, edges, sequence_len) ==
                 IF \/ nodes < cur.nodes
                    \/ nodes = cur.nodes /\ edges < cur.edges
                 THEN cur
                 ELSE IF \/ nodes > cur.nodes
                         \/ nodes = cur.nodes /\ edges > cur.edges
                         \/ nodes = cur.nodes /\ edges = cur.edges
                                              /\ sequence_len <= cur.len
                      THEN [index |-> j, nodes |-> nodes, edges |-> edges,
                            len |-> sequence_len]
                      ELSE cur
             candidate ==
                 IF \/ j \in h.already_chosen_sequences
                    \/ ~valid_fuzz_sequence(api_sequence)
                    \/ h.try_to_find_dynamic_length_flag
                         /\ _is_fuzzables_fixed_length(api_sequence)
                    \/ ~h.try_to_find_dynamic_length_flag
                         /\ ~_is_fuzzables_fixed_length(api_sequence)
                 THEN cur
                 ELSE compare(
                        Cardinality(_get_contained_api_functions(api_sequence)
                                    \ h.already_covered_nodes),
                        Cardinality(api_sequence._covered_dependencies
                                    \ h.already_covered_edges),
                        Len(api_sequence.functions))
         IN choose_candidate_later_tie(h, candidate, j + 1)

\* the loop "for j in 0..total_sequence_number"; cur holds
\* current_chosen_sequence_index, current_max_covered_nodes,
\* current_max_covered_edges and current_chosen_sequence_len
RECURSIVE choose_candidate(_, _, _)
choose_candidate(h, cur, j) ==
    IF j > Len(api_sequences) THEN cur
    ELSE LET api_sequence == api_sequences[j]
             compare(nodes, edges, sequence_len) ==
                 IF \/ nodes < cur.nodes
                    \/ nodes = cur.nodes /\ edges < cur.edges
                 THEN cur
                 ELSE IF \/ nodes > cur.nodes
                         \/ nodes = cur.nodes /\ edges > cur.edges
                         \/ nodes = cur.nodes /\ edges = cur.edges
                                              /\ sequence_len < cur.len
                      THEN [index |-> j, nodes |-> nodes, edges |-> edges,
                            len |-> sequence_len]
                      ELSE cur
             candidate ==
                 IF \/ j \in h.already_chosen_sequences
                    \/ ~valid_fuzz_sequence(api_sequence)
                    \/ h.try_to_find_dynamic_length_flag
                         /\ _is_fuzzables_fixed_length(api_sequence)
                    \/ ~h.try_to_find_dynamic_length_flag
                         /\ ~_is_fuzzables_fixed_length(api_sequence)
                 THEN cur
                 ELSE compare(
                        Cardinality(_get_contained_api_functions(api_sequence)
                                    \ h.already_covered_nodes),
                        Cardinality(api_sequence._covered_dependencies
                                    \ h.already_covered_edges),
                        Len(api_sequence.functions))
         IN choose_candidate(h, candidate, j + 1)

\* the variable-length tier is left when the best candidate has one new
\* function or none
choose_round_early_switch(h, cur, stop_at_visit_all_nodes) ==
    IF h.try_to_find_dynamic_length_flag /\ cur.nodes <= 1
    THEN [h EXCEPT !.try_to_find_dynamic_length_flag = FALSE]
    ELSE IF ~h.try_to_find_dynamic_length_flag /\ cur.edges <= 0 /\ cur.nodes <= 0
    THEN [h EXCEPT !.left = TRUE]
    ELSE LET chosen_sequence == api_sequences[cur.index]
             valid_fuzz_sequence_count ==
                 Cardinality({n \in 1..Len(api_sequences) :
                                 valid_fuzz_sequence(api_sequences[n])})
             to_cover_nodes_number ==
                 Cardinality(UNION {_get_contained_api_functions(api_sequences[n]) :
                                       n \in {m \in 1..Len(api_sequences) :
                                                 valid_fuzz_sequence(api_sequences[m])}})
             to_cover_dependency_number == Len(api_dependencies)
             leave(n) ==
                 [n EXCEPT !.left =
                     \/ Cardinality(n.already_chosen_sequences)
                            = valid_fuzz_sequence_count
                     \/ /\ to_cover_dependency_number # 0
                        /\ Cardinality(n.already_covered_edges)
                               = to_cover_dependency_number
                     \/ /\ stop_at_visit_all_nodes
                        /\ Cardinality(n.already_covered_nodes)
                               = to_cover_nodes_number]
         IN leave([h EXCEPT
                     !.already_chosen_sequences = @ \cup {cur.index},
                     !.sorted_chosen_sequences = Append(@, cur.index),
                     !.already_covered_nodes =
                         @ \cup _get_contained_api_functions(chosen_sequence),
                     !.already_covered_edges =
                         @ \cup chosen_sequence._covered_dependencies])

\* what follows the inner loop in one pass of the outer loop
choose_round(h, cur, stop_at_visit_all_nodes) ==
    IF h.try_to_find_dynamic_length_flag /\ cur.nodes <= 0
    THEN [h EXCEPT !.try_to_find_dynamic_length_flag = FALSE]
    ELSE IF ~h.try_to_find_dynamic_length_flag /\ cur.edges <= 0 /\ cur.nodes <= 0
    THEN [h EXCEPT !.left = TRUE]
    ELSE LET chosen_sequence == api_sequences[cur.index]
             valid_fuzz_sequence_count ==
                 Cardinality({n \in 1..Len(api_sequences) :
                                 valid_fuzz_sequence(api_sequences[n])})
             to_cover_nodes_number ==
                 Cardinality(UNION {_get_contained_api_functions(api_sequences[n]) :
                                       n \in {m \in 1..Len(api_sequences) :
                                                 valid_fuzz_sequence(api_sequences[m])}})
             to_cover_dependency_number == Len(api_dependencies)
             leave(n) ==
                 [n EXCEPT !.left =
                     \/ Cardinality(n.already_chosen_sequences)
                            = valid_fuzz_sequence_count
                     \/ /\ to_cover_dependency_number # 0
                        /\ Cardinality(n.already_covered_edges)
                               = to_cover_dependency_number
                     \/ /\ stop_at_visit_all_nodes
                        /\ Cardinality(n.already_covered_nodes)
                               = to_cover_nodes_number]
         IN leave([h EXCEPT
                     !.already_chosen_sequences = @ \cup {cur.index},
                     !.sorted_chosen_sequences = Append(@, cur.index),
                     !.already_covered_nodes =
                         @ \cup _get_contained_api_functions(chosen_sequence),
                     !.already_covered_edges =
                         @ \cup chosen_sequence._covered_dependencies])

\* the loop "for _ in 0..max_size + 1", rounds passes of it still to go
RECURSIVE choose_rounds(_, _, _)
choose_rounds(h, rounds, stop_at_visit_all_nodes) ==
    IF h.left \/ rounds = 0 THEN h
    ELSE choose_rounds(
             choose_round(h,
                          choose_candidate(h, [index |-> 1, nodes |-> 0,
                                               edges |-> 0, len |-> 0], 1),
                          stop_at_visit_all_nodes),
             rounds - 1, stop_at_visit_all_nodes)

\* the selection loop of _heuristic_choose from its first pass to its last:
\* the covered sets, the picks and the tier flag it ends with
choose_loop(max_size, stop_at_visit_all_nodes) ==
    choose_rounds([already_covered_nodes |-> {},
                   already_covered_edges |-> {},
                   already_chosen_sequences |-> {},
                   sorted_chosen_sequences |-> <<>>,
                   try_to_find_dynamic_length_flag |-> TRUE,
                   left |-> FALSE],
                  max_size + 1, stop_at_visit_all_nodes)

_heuristic_choose(max_size, stop_at_visit_all_nodes) ==
    IF \A n \in 1..Len(api_sequences) : ~valid_fuzz_sequence(api_sequences[n])
    THEN <<>>
    ELSE LET clones(sorted_chosen_sequences) ==
                 [n \in 1..Len(sorted_chosen_sequences) |->
                     api_sequences[sorted_chosen_sequences[n]]]
         IN clones(choose_loop(max_size,
                               stop_at_visit_all_nodes).sorted_chosen_sequences)

\* pc is "rebuilt" when the dependencies were built again on the same catalog
FindAllDependencies ==
    /\ pc \in {"new", "filtered", "ready", "rebuilt"}
    /\ api_dependencies' = find_all_dependencies(Iota(Len(api_functions)),
                                                 Iota(Len(api_functions)), FALSE)
    /\ pc' = IF pc \in {"new", "filtered"} THEN "ready" ELSE "rebuilt"
    /\ ret' = None
    /\ res' = None
    /\ UNCHANGED <<_crate_name, at, mod_visibility>>
    /\ UNCHANGED <<api_functions, api_sequences, api_functions_visited, walk>>

\* add_api_function on the next function of one of the crates of catalogs:
\* the functions of a crate are added in the order of the crate
NextFunctionsOf(catalogs, functions) ==
    UNION {{c[m] : m \in {n \in (Len(functions) + 1)..Len(c) :
                              functions = Constructed(SubSeq(c, 1, n - 1))}} :
              c \in catalogs}

AddApiFunctionOf(catalogs) ==
    /\ pc = "new"
    /\ \E api_fun \in NextFunctionsOf(catalogs, api_functions) :
          api_functions' = add_api_function(api_functions, api_fun)
    /\ pc' = "new"
    /\ ret' = None
    /\ res' = None
    /\ UNCHANGED <<_crate_name, at, mod_visibility>>
    /\ UNCHANGED <<api_dependencies, api_sequences, api_functions_visited, walk>>

\* the crates that are constructed: the catalogs and the crates of the
\* filters
AddApiFunction == AddApiFunctionOf(Catalogs \cup {CrateCatalog, PreludeCatalog})

\* add_mod_visibility: the mod is registered whatever the catalog holds
AddModVisibility ==
    /\ pc = "new"
    /\ \E mod_name \in Mods, visibility \in {"Public", "Inherited"} :
          mod_visibility' = add_one_mod(mod_visibility, mod_name, visibility)
    /\ pc' = "new"
    /\ ret' = None
    /\ res' = None
    /\ UNCHANGED <<_crate_name, at>>
    /\ UNCHANGED <<api_functions, api_dependencies, api_sequences,
                   api_functions_visited, walk>>

\* the filters end the construction: no function is added after one
FilterFunctionsDefinedOnPreludeType ==
    /\ pc \in {"new", "filtered"}
    /\ api_functions' = filter_functions_defined_on_prelude_type(api_functions)
    /\ pc' = "filtered"
    /\ ret' = None
    /\ res' = None
    /\ UNCHANGED <<_crate_name, at, mod_visibility>>
    /\ UNCHANGED <<api_dependencies, api_sequences, api_functions_visited, walk>>

\* filter_api_functions_by_mod_visibility panics when no mod is registered
FilterApiFunctionsByModVisibility ==
    /\ pc \in {"new", "filtered"}
    /\ IF DOMAIN mod_visibility = {}
       THEN /\ pc' = "panicked"
            /\ UNCHANGED api_functions
       ELSE /\ pc' = "filtered"
            /\ api_functions' =
                   filter_api_functions_by_mod_visibility(
                       api_functions, get_invisible_mods(mod_visibility))
    /\ ret' = None
    /\ res' = None
    /\ UNCHANGED <<_crate_name, at, mod_visibility>>
    /\ UNCHANGED <<api_dependencies, api_sequences, api_functions_visited, walk>>

\* filter_functions: the filter on prelude types, then the filter on the
\* visibility; the first has been applied when the second panics
FilterFunctions ==
    /\ pc \in {"new", "filtered"}
    /\ IF DOMAIN mod_visibility = {}
       THEN /\ pc' = "panicked"
            /\ api_functions' =
                   filter_functions_defined_on_prelude_type(api_functions)
       ELSE /\ pc' = "filtered"
            /\ api_functions' =
                   filter_api_functions_by_mod_visibility(
                       filter_functions_defined_on_prelude_type(api_functions),
                       get_invisible_mods(mod_visibility))
    /\ ret' = None
    /\ res' = None
    /\ UNCHANGED <<_crate_name, at, mod_visibility>>
    /\ UNCHANGED <<api_dependencies, api_sequences, api_functions_visited, walk>>

\* ApiGraph::new: the catalog is empty
Init ==
    /\ api_functions = <<>>
    /\ api_dependencies = <<>>
    /\ api_sequences = <<>>
    /\ api_functions_visited = <<>>
    /\ pc = "new"
    /\ walk = NoWalk
    /\ ret = None
    /\ res = None
    /\ _crate_name = "lib"
    /\ at = NoPass
    /\ mod_visibility = ModVisibity_new

MaxLen == 3
MaxPool == 1
MaxWalk == 2

\* the depth bounds that are tried; 0 is "no depth bound"
WalkDepths == {0, 2}

\* a search strategy starts on a graph whose dependencies are built and whose
\* pool holds at most MaxPool sequences
CanSearch ==
    /\ pc \in {"ready", "rebuilt", "searched"}
    /\ Len(api_sequences) <= MaxPool

\* "let bfs_max_len = 3;" of generate_all_possoble_sequences
bfs_max_len == 3

\* bfs keeps the sequences already in the pool
Bfs ==
    /\ CanSearch
    /\ \E max_len \in 0..MaxLen, stop_at_end_function \in BOOLEAN,
          fast_mode \in BOOLEAN :
          LET store(g) == /\ api_sequences' = g.pool
                          /\ api_functions_visited' = g.visited
          IN store(bfs(max_len, stop_at_end_function, fast_mode))
    /\ pc' = "searched"
    /\ ret' = None
    /\ res' = None
    /\ UNCHANGED <<_crate_name, at, mod_visibility>>
    /\ walk' = NoWalk
    /\ UNCHANGED <<api_functions, api_dependencies>>

\* the ceilings on (pool size) x (visited functions) that are tried
MaxSequenceNumbers == {0, 6, 100000}

TryDeepBfs ==
    /\ CanSearch
    /\ \E max_sequence_number \in MaxSequenceNumbers :
          LET store(g) == /\ api_sequences' = g.pool
                          /\ api_functions_visited' = g.visited
          IN store(_try_deep_bfs(max_sequence_number))
    /\ pc' = "searched"
    /\ ret' = None
    /\ res' = None
    /\ UNCHANGED <<_crate_name, at, mod_visibility>>
    /\ walk' = NoWalk
    /\ UNCHANGED <<api_functions, api_dependencies>>

\* random_walk up to its loop: clear the pool, reset the flags, push the
\* empty sequence
RandomWalkStart ==
    /\ CanSearch
    /\ \E max_size \in 0..MaxWalk, stop_at_end_function \in BOOLEAN,
          max_depth \in WalkDepths :
          /\ walk' = [i |-> 0, max_size |-> max_size,
                      stop_at_end_function |-> stop_at_end_function,
                      max_depth |-> max_depth]
          /\ pc' = IF Len(api_functions) <= 0 \/ max_size = 0
                   THEN "searched" ELSE "walk"
    /\ api_sequences' = IF Len(api_functions) <= 0 THEN <<>>
                        ELSE <<ApiSequence_new>>
    /\ api_functions_visited' = reset_visited
    /\ ret' = None
    /\ res' = None
    /\ UNCHANGED <<_crate_name, at, mod_visibility>>
    /\ UNCHANGED <<api_functions, api_dependencies>>

\* an admitted call is added to the chosen sequence where it stands in the
\* pool
RandomWalkStep_in_place ==
    /\ pc = "walk"
    /\ walk.i < walk.max_size
    /\ \E chosen_sequence_index \in 1..Len(api_sequences) :
          \E chosen_fun_index \in 1..Len(api_functions) :
             LET push(new_sequence) ==
                     IF new_sequence = None
                     THEN UNCHANGED <<api_sequences, api_functions_visited>>
                     ELSE /\ api_sequences' =
                                 [api_sequences EXCEPT
                                     ![chosen_sequence_index] = new_sequence[1]]
                          /\ api_functions_visited' =
                                 [api_functions_visited EXCEPT
                                     ![chosen_fun_index] = TRUE]
             IN push(is_fun_satisfied(chosen_fun_index,
                                      api_sequences[chosen_sequence_index]))
    /\ walk' = [walk EXCEPT !.i = @ + 1]
    /\ pc' = IF walk.i + 1 = walk.max_size THEN "searched" ELSE "walk"
    /\ ret' = None
    /\ res' = None
    /\ UNCHANGED <<_crate_name, at, mod_visibility>>
    /\ UNCHANGED <<api_functions, api_dependencies>>

\* the walk is over as soon as check_all_visited holds
RandomWalkStep_until_visited ==
    /\ pc = "walk"
    /\ walk.i < walk.max_size
    /\ \E chosen_sequence_index \in 1..Len(api_sequences) :
          LET chosen_sequence == api_sequences[chosen_sequence_index]
          IN IF \/ walk.stop_at_end_function /\ is_sequence_ended(chosen_sequence)
                \/ walk.max_depth > 0
                     /\ Len(chosen_sequence.functions) >= walk.max_depth
             THEN UNCHANGED <<api_sequences, api_functions_visited>>
             ELSE \E chosen_fun_index \in 1..Len(api_functions) :
                    LET push(new_sequence) ==
                            IF new_sequence = None
                            THEN UNCHANGED <<api_sequences, api_functions_visited>>
                            ELSE /\ api_sequences' =
                                        Append(api_sequences, new_sequence[1])
                                 /\ api_functions_visited' =
                                        [api_functions_visited EXCEPT
                                            ![chosen_fun_index] = TRUE]
                    IN push(is_fun_satisfied(chosen_fun_index, chosen_sequence))
    /\ walk' = [walk EXCEPT !.i = @ + 1]
    /\ pc' = IF \/ walk.i + 1 = walk.max_size
                \/ check_all_visited(api_functions_visited')
             THEN "searched" ELSE "walk"
    /\ ret' = None
    /\ res' = None
    /\ UNCHANGED <<_crate_name, at, mod_visibility>>
    /\ UNCHANGED <<api_functions, api_dependencies>>

\* one iteration of "for i in 0..max_size"; the two rng.gen_range draws are
\* the two choices
RandomWalkStep ==
    /\ pc = "walk"
    /\ walk.i < walk.max_size
    /\ \E chosen_sequence_index \in 1..Len(api_sequences) :
          LET chosen_sequence == api_sequences[chosen_sequence_index]
          IN IF \/ walk.stop_at_end_function /\ is_sequence_ended(chosen_sequence)
                \/ walk.max_depth > 0
                     /\ Len(chosen_sequence.functions) >= walk.max_depth
             THEN UNCHANGED <<api_sequences, api_functions_visited>>
             ELSE \E chosen_fun_index \in 1..Len(api_functions) :
                    LET push(new_sequence) ==
                            IF new_sequence = None
                            THEN UNCHANGED <<api_sequences, api_functions_visited>>
                            ELSE /\ api_sequences' =
                                        Append(api_sequences, new_sequence[1])
                                 /\ api_functions_visited' =
                                        [api_functions_visited EXCEPT
                                            ![chosen_fun_index] = TRUE]
                    IN push(is_fun_satisfied(chosen_fun_index, chosen_sequence))
    /\ walk' = [walk EXCEPT !.i = @ + 1]
    /\ pc' = IF walk.i + 1 = walk.max_size THEN "searched" ELSE "walk"
    /\ ret' = None
    /\ res' = None
    /\ UNCHANGED <<_crate_name, at, mod_visibility>>
    /\ UNCHANGED <<api_functions, api_dependencies>>

MaxCorpus == 2

\* "ghost" names a function that the catalog does not hold
CorpusNames ==
    {api_functions[i].full_name : i \in 1..Len(api_functions)} \cup {"ghost"}

\* the seed corpora that name at most n functions in all: lists of
\* non-empty chains of names
RECURSIVE Corpora(_, _)
Corpora(names, n) ==
    {<<>>} \cup
    UNION {{<<chain>> \o rest : rest \in Corpora(names, n - Len(chain))} :
              chain \in UNION {[1..m -> names] : m \in 1..n}}

\* the line "t | freq | chain"
Line(freq, chain) == Some(<< <<"t", "">>, <<"", freq, "">>, <<"">> \o chain >>)

\* the file whose lines hold the chains sequences, all of frequency 1
FileOf(sequences) ==
    Some([n \in 1..Len(sequences) |-> Line("1", sequences[n])])

\* lines that the loop cannot read: one that is not text, one without a
\* second field, one whose second field has no digit, one whose second
\* field is above i32::MAX
BadLines ==
    {None, Some(<< <<"t">> >>), Line("n/a", <<"t">>),
     Line("2147483648", <<"t">>)}

\* lines whose fields are not the three of Line: two fields, of which the
\* second gives the frequency and the chain; a chain with a word of one
\* character and an empty word; no word in the chain
OddLines(names) ==
    {Some(<< <<"t", "">>, <<"", "12">> >>), Line("x2", <<>>)}
        \cup {Line("2", <<"x", "", name>>) : name \in names}

\* lines of the frequency i32::MAX: the count of a name that the line names
\* twice, or that a line before it names, is above i32::MAX
LargeLines(names) ==
    {Line("2147483647", <<name>>) : name \in names}
        \cup {Line("2147483647", <<name, name>>) : name \in names}

\* the corpus files that are tried: the file is missing; the chains of
\* Corpora in lines of three fields; and a line of BadLines, of OddLines or
\* of LargeLines behind at most one such line
CorpusFiles ==
    {None}
        \cup {FileOf(sequences) : sequences \in Corpora(CorpusNames, MaxCorpus)}
        \cup {Some(Append(FileOf(sequences)[1], line)) :
                 sequences \in Corpora(CorpusNames, 1),
                 line \in BadLines \cup OddLines(CorpusNames)
                              \cup LargeLines(CorpusNames)}

\* the builds that are tried on file: with overflow checks, and without them
\* on the files with a line of LargeLines, the files of CorpusFiles on which
\* the two builds can differ
Builds(file) ==
    IF /\ file # None
       /\ \E n \in 1..Len(file[1]) : file[1][n] \in LargeLines(CorpusNames)
    THEN BOOLEAN ELSE {TRUE}

\* real_world clears the pool and the flags before it replays; an unwrap or
\* an addition that panics while the file is read ends the run with the pool
\* and the flags as they were
RealWorld ==
    /\ pc \in {"ready", "rebuilt"}
    /\ \E file \in CorpusFiles : \E overflow_checks \in Builds(file) :
          LET store(g) ==
                  IF g = None
                  THEN /\ pc' = "panicked"
                       /\ UNCHANGED <<api_sequences, api_functions_visited,
                                      walk>>
                  ELSE /\ pc' = "searched"
                       /\ api_sequences' = g[1].pool
                       /\ api_functions_visited' = g[1].visited
                       /\ walk' = NoWalk
          IN store(real_world(file, overflow_checks))
    /\ ret' = None
    /\ res' = None
    /\ UNCHANGED <<_crate_name, at, mod_visibility>>
    /\ UNCHANGED <<api_functions, api_dependencies>>

\* the hash set of unvisited nodes is iterated in an order the code does
\* not fix
TryToCoverUnvisitedNodes ==
    /\ pc = "searched"
    /\ \E unvisited_nodes \in
            Orders({i \in 1..Len(api_functions) : ~api_functions_visited[i]}) :
          LET store(g) == /\ api_sequences' = g.pool
                          /\ api_functions_visited' = g.visited
          IN store(_try_to_cover_unvisited_nodes(api_sequences,
                                                 api_functions_visited,
                                                 unvisited_nodes))
    /\ pc' = "covered"
    /\ ret' = None
    /\ res' = None
    /\ UNCHANGED <<_crate_name, at, mod_visibility>>
    /\ walk' = NoWalk
    /\ UNCHANGED <<api_functions, api_dependencies>>

\* GraphTraverseAlgorithm::_DirectBackwardSearch: the pass on an empty pool
DirectBackwardSearch ==
    /\ pc \in {"ready", "rebuilt"}
    /\ \E unvisited_nodes \in Orders(1..Len(api_functions)) :
          LET store(g) == /\ api_sequences' = g.pool
                          /\ api_functions_visited' = g.visited
          IN store(_try_to_cover_unvisited_nodes(<<>>, reset_visited,
                                                 unvisited_nodes))
    /\ pc' = "covered"
    /\ ret' = None
    /\ res' = None
    /\ UNCHANGED <<_crate_name, at, mod_visibility>>
    /\ walk' = NoWalk
    /\ UNCHANGED <<api_functions, api_dependencies>>

\* reverse_construct changes nothing; ret holds what it returned
ReverseConstruct ==
    /\ pc \in {"ready", "rebuilt"}
    /\ \E tail_api_index \in 1..Len(api_functions) :
          ret' = Some([tail_api_index |-> tail_api_index,
                       result |-> reverse_construct(tail_api_index)])
    /\ res' = None
    /\ UNCHANGED <<_crate_name, at, mod_visibility>>
    /\ UNCHANGED <<api_functions, api_dependencies, api_sequences,
                   api_functions_visited, pc, walk>>

\* the sizes asked of _heuristic_choose
MaxSizes == {0, 2}

\* _heuristic_choose changes nothing; res holds what it returned.  The
\* sequences are chosen when the search is over: pc becomes "chosen"
HeuristicChoose ==
    /\ pc \in {"searched", "covered"}
    /\ \E max_size \in MaxSizes : \E stop_at_visit_all_nodes \in BOOLEAN :
          res' = Some([max_size |-> max_size,
                       stop_at_visit_all_nodes |-> stop_at_visit_all_nodes,
                       res |-> _heuristic_choose(max_size,
                                                 stop_at_visit_all_nodes)])
    /\ pc' = "chosen"
    /\ ret' = None
    /\ UNCHANGED <<_crate_name, at, mod_visibility>>
    /\ UNCHANGED <<api_functions, api_dependencies, api_sequences,
                   api_functions_visited, walk>>

\* the engine: the construction of the catalog with its three filters and
\* the registration of mods, the dependency scan, the search strategies, the
\* coverage repair and the selection
Next ==
    \/ AddApiFunction
    \/ AddModVisibility
    \/ FilterFunctions
    \/ FilterFunctionsDefinedOnPreludeType
    \/ FilterApiFunctionsByModVisibility
    \/ FindAllDependencies
    \/ HeuristicChoose
    \/ ReverseConstruct
    \/ TryToCoverUnvisitedNodes
    \/ DirectBackwardSearch
    \/ RealWorld
    \/ Bfs
    \/ TryDeepBfs
    \/ RandomWalkStart
    \/ RandomWalkStep

Spec == Init /\ [][Next]_vars

(***************************************************************************)
(* bfs in fast mode, one candidate function at a time.  at is the position  *)
(* in the three loops of bfs: the frontier length len, the frontier         *)
(* tmp_sequences of that length, the frontier sequence n and the candidate  *)
(* api_func_index that is tried next.                                       *)
(***************************************************************************)
\* the position at the start of the pass for p.len; a pass with an empty
\* frontier has no candidate and the next pass follows; NoPass when the loop
\* "for len in 0..max_len" is over
RECURSIVE bfs_enter(_, _)
bfs_enter(pool, p) ==
    IF p.len >= p.max_len THEN NoPass
    ELSE LET first(tmp_sequences) ==
                 IF tmp_sequences = <<>> \/ api_functions = <<>>
                 THEN bfs_enter(pool, [p EXCEPT !.len = @ + 1])
                 ELSE [p EXCEPT !.tmp_sequences = tmp_sequences,
                                !.n = 1, !.api_func_index = 1]
         IN first(bfs_frontier(pool, p.len, p.stop_at_end_function))

\* the position after the candidate at p
bfs_advance(pool, p) ==
    IF p.api_func_index < Len(api_functions)
    THEN [p EXCEPT !.api_func_index = @ + 1]
    ELSE IF p.n < Len(p.tmp_sequences)
    THEN [p EXCEPT !.n = @ + 1, !.api_func_index = 1]
    ELSE bfs_enter(pool, [p EXCEPT !.len = @ + 1])

\* the frontier lengths asked of the fast bfs, up to the one that
\* generate_all_possoble_sequences asks
FastLens == 0..bfs_max_len

\* bfs(max_len, stop_at_end_function, true) up to its first candidate
FastBfsStart ==
    /\ pc \in {"ready", "rebuilt"}
    /\ \E max_len \in FastLens, stop_at_end_function \in BOOLEAN :
          IF max_len < 1
          THEN /\ UNCHANGED api_sequences
               /\ at' = NoPass
          ELSE /\ api_sequences' = Append(api_sequences, ApiSequence_new)
               /\ at' = bfs_enter(Append(api_sequences, ApiSequence_new),
                                  [NoPass EXCEPT
                                      !.max_len = max_len,
                                      !.stop_at_end_function = stop_at_end_function,
                                      !.fast_mode = TRUE])
    /\ api_functions_visited' = reset_visited
    /\ pc' = IF at' = NoPass THEN "searched" ELSE "bfs"
    /\ ret' = None
    /\ res' = None
    /\ walk' = NoWalk
    /\ UNCHANGED <<api_functions, api_dependencies, _crate_name, mod_visibility>>

\* one iteration of "for api_func_index in 0..api_function_num"
BfsStep ==
    /\ pc = "bfs"
    /\ IF at.fast_mode /\ api_functions_visited[at.api_func_index]
       THEN UNCHANGED <<api_sequences, api_functions_visited>>
       ELSE LET push(new_sequence) ==
                    IF new_sequence = None
                    THEN UNCHANGED <<api_sequences, api_functions_visited>>
                    ELSE /\ api_sequences' =
                                Append(api_sequences, new_sequence[1])
                         /\ api_functions_visited' =
                                [api_functions_visited EXCEPT
                                    ![at.api_func_index] = TRUE]
            IN push(is_fun_satisfied(at.api_func_index, at.tmp_sequences[at.n]))
    /\ at' = bfs_advance(api_sequences', at)
    /\ pc' = IF at' = NoPass THEN "searched" ELSE "bfs"
    /\ ret' = None
    /\ res' = None
    /\ walk' = NoWalk
    /\ UNCHANGED <<api_functions, api_dependencies, _crate_name, mod_visibility>>

\* n functions without parameters and without a result
Nullary(n) == [i \in 1..n |-> Fn("f" \o ToString(i), <<>>, None)]

\* a library of the tuning table and one that the table does not list
CrateNames == {"serde_json", "lib"}

\* catalogs of as many functions as the table has for a library, and of
\* one more
LargeCatalogs ==
    {Nullary(CAN_COVER_NODES[name] + more) :
        name \in CrateNames \cap DOMAIN CAN_COVER_NODES, more \in {0, 1}}

AddLargeApiFunction == AddApiFunctionOf(LargeCatalogs)

InitLarge ==
    /\ api_functions = <<>>
    /\ api_dependencies = <<>>
    /\ api_sequences = <<>>
    /\ api_functions_visited = <<>>
    /\ pc = "new"
    /\ walk = NoWalk
    /\ ret = None
    /\ res = None
    /\ _crate_name \in CrateNames
    /\ at = NoPass
    /\ mod_visibility = ModVisibity_new

NextFastBfs ==
    \/ AddLargeApiFunction
    \/ FindAllDependencies
    \/ FastBfsStart
    \/ BfsStep

\* the fast bfs on the dependencies of a large catalog
SpecFastBfs == InitLarge /\ [][NextFastBfs]_vars

(***************************************************************************)
(* The alternate selection policies, on the pool a search has left.         *)
(***************************************************************************)
\* the loop "for index in 0..total_sequence_size" of _first_choose: the
\* sequence is pushed before res.len() is compared with max_size
RECURSIVE first_choose_from(_, _, _)
first_choose_from(index, chosen, max_size) ==
    IF index > Len(api_sequences) THEN chosen
    ELSE IF _has_no_fuzzables(api_sequences[index])
    THEN first_choose_from(index + 1, chosen, max_size)
    ELSE IF Len(chosen) + 1 >= max_size
    THEN Append(chosen, api_sequences[index])
    ELSE first_choose_from(index + 1, Append(chosen, api_sequences[index]),
                           max_size)

_first_choose(max_size) == first_choose_from(1, <<>>, max_size)

\* the sizes the selection policies are asked for
ChooseSizes == {0, 1, 2}

FirstChoose ==
    /\ pc = "searched"
    /\ \E max_size \in ChooseSizes :
          res' = Some([max_size |-> max_size, res |-> _first_choose(max_size)])
    /\ pc' = "chosen"
    /\ ret' = None
    /\ UNCHANGED <<_crate_name, at, mod_visibility>>
    /\ UNCHANGED <<api_functions, api_dependencies, api_sequences,
                   api_functions_visited, walk>>

\* node_candidate_sequences[node]: the pool positions of the sequences that
\* contain node, in pool order
node_candidate_sequences(node) ==
    SelectSeq(Iota(Len(api_sequences)), LAMBDA i :
        node \in _get_contained_api_functions(api_sequences[i]))

\* _naive_choose_sequence up to its selection loop; res holds the locals of
\* the call
NaiveChooseStart ==
    /\ pc = "searched"
    /\ \E max_sequence_size \in {0, Len(api_functions)} :
          LET to_cover_nodes ==
                  SelectSeq(Iota(Len(api_functions)),
                            LAMBDA i : api_functions_visited[i])
          IN /\ res' = Some([max_sequence_size |-> max_sequence_size,
                             to_cover_nodes |-> to_cover_nodes,
                             chosen_sequence_flag |->
                                 [i \in 1..Len(api_sequences) |-> FALSE],
                             res |-> <<>>,
                             round |-> 0])
             /\ pc' = IF max_sequence_size = 0 \/ to_cover_nodes = <<>>
                      THEN "chosen" ELSE "naive"
    /\ ret' = None
    /\ UNCHANGED <<_crate_name, at, mod_visibility>>
    /\ UNCHANGED <<api_functions, api_dependencies, api_sequences,
                   api_functions_visited, walk>>

\* one pass of "for _ in 0..max_sequence_size"; rng.gen_range(0, 0) panics
\* when no candidate is left, and the flag is set at random_index
NaiveChooseStep ==
    /\ pc = "naive"
    /\ LET st == res[1]
           next_cover_node == st.to_cover_nodes[1]
           unvisited_candidate_sequences ==
               SelectSeq(node_candidate_sequences(next_cover_node),
                         LAMBDA node : ~st.chosen_sequence_flag[node])
           candidate_number == Len(unvisited_candidate_sequences)
       IN IF candidate_number = 0
          THEN /\ pc' = "panicked"
               /\ res' = res
          ELSE \E random_index \in 1..candidate_number :
                  LET chosen_sequence ==
                          api_sequences[unvisited_candidate_sequences[random_index]]
                      rest ==
                          SelectSeq(st.to_cover_nodes, LAMBDA node :
                              node \notin
                                 _get_contained_api_functions(chosen_sequence))
                  IN /\ res' = Some([st EXCEPT
                                       !.to_cover_nodes = rest,
                                       !.chosen_sequence_flag[random_index] = TRUE,
                                       !.res = Append(@, chosen_sequence),
                                       !.round = @ + 1])
                     /\ pc' = IF st.round + 1 = st.max_sequence_size
                                 \/ rest = <<>>
                              THEN "chosen" ELSE "naive"
    /\ ret' = None
    /\ UNCHANGED <<_crate_name, at, mod_visibility>>
    /\ UNCHANGED <<api_functions, api_dependencies, api_sequences,
                   api_functions_visited, walk>>

NextChoose ==
    \/ AddApiFunction
    \/ FindAllDependencies
    \/ Bfs
    \/ RealWorld
    \/ FirstChoose
    \/ NaiveChooseStart
    \/ NaiveChooseStep

\* the selection policies on the pools of bfs and of the seed replay
SpecChoose == Init /\ [][NextChoose]_vars

(***************************************************************************)
(* Properties of the sequences of the pool.                                 *)
(***************************************************************************)
Pool == Range(api_sequences)

Calls(s) == 1..Len(s.functions)

Params(s, c) == 1..Len(s.functions[c].params)

\* parameter k of call c of s takes the result of call j
TakesResult(s, c, k, j) ==
    /\ s.functions[c].params[k].param_type = "_FunctionReturn"
    /\ s.functions[c].params[k].index = j

Mode(s, c, k) == s.functions[c].params[k].call_type

\* the dependency set has an edge from the function of call j of s to
\* parameter k of the function of call c
HasEdge(s, j, c, k) ==
    check_dependency(s.functions[j].func, s.functions[c].func, k) # None

\* C1: in every pool sequence a result that a parameter takes by move is
\* taken by no other parameter of that call and by no parameter of a later
\* call.
C1_MovedResultNotReused ==
    \A s \in Pool : \A c \in Calls(s) : \A k \in Params(s, c) :
        \A j \in Calls(s) :
            TakesResult(s, c, k, j) /\ Mode(s, c, k) = "_Move"
            => \A c2 \in Calls(s) : \A k2 \in Params(s, c2) :
                   (c2 > c \/ (c2 = c /\ k2 # k)) => ~TakesResult(s, c2, k2, j)

\* a later call has a parameter that the moved result could feed, and takes
\* another result for it
C1_Witness ==
    \E s \in Pool : \E c \in Calls(s) : \E k \in Params(s, c) : \E j \in Calls(s) :
        /\ TakesResult(s, c, k, j) /\ Mode(s, c, k) = "_Move"
        /\ \E c2 \in Calls(s) : \E k2 \in Params(s, c2) : \E j2 \in Calls(s) :
              /\ c2 > c /\ HasEdge(s, j, c2, k2)
              /\ TakesResult(s, c2, k2, j2) /\ j2 # j

Borrows == {"_BorrowedRef", "_MutBorrowedRef"}

\* C2 as stated: a result that a parameter borrows exclusively is borrowed
\* by no other parameter of that call and by no parameter of a later call.
C2_ExclusiveUntilSequenceEnd ==
    \A s \in Pool : \A c \in Calls(s) : \A k \in Params(s, c) :
        \A j \in Calls(s) :
            TakesResult(s, c, k, j) /\ Mode(s, c, k) = "_MutBorrowedRef"
            => \A c2 \in Calls(s) : \A k2 \in Params(s, c2) :
                   (c2 > c \/ (c2 = c /\ k2 # k))
                   => ~(TakesResult(s, c2, k2, j) /\ Mode(s, c2, k2) \in Borrows)

\* C2 amended: a result that a parameter borrows exclusively is borrowed by
\* no later parameter of the same call; the exclusive access ends with the
\* call, and later calls borrow the result again.
C2_ExclusiveWithinCall ==
    \A s \in Pool : \A c \in Calls(s) : \A k \in Params(s, c) :
        \A j \in Calls(s) :
            TakesResult(s, c, k, j) /\ Mode(s, c, k) = "_MutBorrowedRef"
            => \A k2 \in Params(s, c) :
                   k2 > k
                   => ~(TakesResult(s, c, k2, j) /\ Mode(s, c, k2) \in Borrows)

\* a call borrows a result exclusively, passes it over for a later borrowing
\* parameter, and a later call borrows that result again
C2_Witness ==
    \E s \in Pool : \E c \in Calls(s) : \E k \in Params(s, c) : \E j \in Calls(s) :
        /\ TakesResult(s, c, k, j) /\ Mode(s, c, k) = "_MutBorrowedRef"
        /\ \E k2 \in Params(s, c) : \E j2 \in Calls(s) :
              /\ k2 > k /\ HasEdge(s, j, c, k2) /\ j2 # j
              /\ TakesResult(s, c, k2, j2) /\ Mode(s, c, k2) \in Borrows
        /\ \E c2 \in Calls(s) : \E k2 \in Params(s, c2) :
              c2 > c /\ TakesResult(s, c2, k2, j) /\ Mode(s, c2, k2) \in Borrows

\* C3: no call of a pool sequence has two parameters on the same result of
\* which one is an exclusive borrow and the other an exclusive or a shared
\* borrow, in either parameter order.
C3_NoBorrowConflictInCall ==
    \A s \in Pool : \A c \in Calls(s) : \A k \in Params(s, c) :
        \A k2 \in Params(s, c) : \A j \in Calls(s) :
            /\ k # k2
            /\ TakesResult(s, c, k, j) /\ TakesResult(s, c, k2, j)
            => ~(Mode(s, c, k) = "_MutBorrowedRef" /\ Mode(s, c, k2) \in Borrows)

\* a call borrows a result shared and then, for a later parameter that the
\* same result could feed, borrows another result exclusively
C3_Witness ==
    \E s \in Pool : \E c \in Calls(s) : \E k \in Params(s, c) : \E j \in Calls(s) :
        /\ TakesResult(s, c, k, j) /\ Mode(s, c, k) = "_BorrowedRef"
        /\ \E k2 \in Params(s, c) : \E j2 \in Calls(s) :
              /\ k2 > k /\ HasEdge(s, j, c, k2) /\ j2 # j
              /\ TakesResult(s, c, k2, j2) /\ Mode(s, c, k2) = "_MutBorrowedRef"

\* C4: no pool sequence has more than one variable-length fuzzable
\* parameter, in every state of every strategy and of the repair pass.
C4_AtMostOneDynamicLength ==
    \A s \in Pool : _dynamic_length_param_number(s) <= 1

\* after the repair pass a function is still unvisited although every one of
\* its parameters found a candidate: the merge of the candidates holds two
\* variable-length fuzzable parameters and the admission on it was refused
C4_Witness ==
    /\ pc = "covered"
    /\ \E node \in 1..Len(api_functions) :
          LET indexes == dependent_sequence_indexes(
                             api_sequences,
                             _choose_candidate_sequence_for_merge(api_sequences),
                             node)
              merged_sequence ==
                  _merge_sequences([n \in 1..Len(indexes[1]) |->
                                       api_sequences[indexes[1][n]]])
          IN /\ ~api_functions_visited[node]
             /\ indexes # None
             /\ _dynamic_length_param_number(merged_sequence) > 1
             /\ is_fun_satisfied(node, merged_sequence) = None
             /\ is_fun_satisfied_any_dynamic(node, merged_sequence) # None

(***************************************************************************)
(* Properties of the dependency list.                                       *)
(***************************************************************************)
Edges == Range(api_dependencies)

Functions == 1..Len(api_functions)

\* the states that find_all_dependencies leaves: no later action changes
\* api_functions or api_dependencies, so what holds of the two here holds of
\* them in every later state
DependenciesFound == pc \in {"ready", "rebuilt"}

\* the type a value of function f has once f's generic substitutions are
\* applied; None when a generic type parameter has no substitution
ReturnOf(f) ==
    substitute_type(api_functions[f].output[1],
                    api_functions[f].generic_substitutions)

InputOf(f, k) ==
    substitute_type(api_functions[f].inputs[k],
                    api_functions[f].generic_substitutions)

\* C5: once find_all_dependencies has run, the mode of every recorded edge
\* (p, c, k, mode) is what the oracle answers for the substituted return
\* type of p against the substituted type of parameter k of c, and it is not
\* the incompatible mode.
C5_EdgesAreOracleCompatible ==
    DependenciesFound =>
        \A e \in Edges :
            /\ api_functions[e.output_fun].output # None
            /\ ReturnOf(e.output_fun) # None
            /\ InputOf(e.input_fun, e.input_param_index) # None
            /\ e.call_type =
                   _same_type(ReturnOf(e.output_fun)[1],
                              InputOf(e.input_fun, e.input_param_index)[1])
            /\ e.call_type # "_NotCompatible"

\* the list holds an edge whose producer returns a substituted generic type,
\* and the catalog has a pair that the oracle calls incompatible
C5_Witness ==
    /\ pc = "ready"
    /\ \E e \in Edges : api_functions[e.output_fun].output[1] \in GenericNames
    /\ \E p \in Functions, c \in Functions :
          \E k \in 1..Len(api_functions[c].inputs) :
              /\ api_functions[p].output # None
              /\ ReturnOf(p) # None /\ InputOf(c, k) # None
              /\ _same_type(ReturnOf(p)[1], InputOf(c, k)[1]) = "_NotCompatible"

\* C6: find_all_dependencies on a graph whose dependencies are built leaves
\* the list as it was, and the first build yields the same edges, each once,
\* whatever the order in which producers, consumers and parameters are
\* visited.
C6_RebuildYieldsSameEdges ==
    [][FindAllDependencies =>
          /\ DependenciesFound => api_dependencies' = api_dependencies
          /\ ~DependenciesFound =>
                \A producer_order \in Orders(Functions),
                   consumer_order \in Orders(Functions),
                   backwards \in BOOLEAN :
                    LET same(other) ==
                            /\ Range(other) = Range(api_dependencies')
                            /\ Len(other) = Len(api_dependencies')
                    IN same(find_all_dependencies(producer_order,
                                                  consumer_order, backwards))
      ]_vars

\* the dependencies of a catalog of three or more functions, with two or
\* more edges, were built a second time
C6_Witness ==
    /\ pc = "rebuilt"
    /\ Len(api_functions) >= 3
    /\ Len(api_dependencies) >= 2

(***************************************************************************)
(* Replaying a list of functions.                                           *)
(***************************************************************************)
\* the sequence that admitting functions[n], functions[n + 1], ... in turn
\* builds on sequence; None when one of them is not admitted
RECURSIVE Replay(_, _, _)
Replay(functions, n, sequence) ==
    IF n > Len(functions) THEN Some(sequence)
    ELSE LET next(new_sequence) ==
                 IF new_sequence = None THEN None
                 ELSE Replay(functions, n + 1, new_sequence[1])
         IN next(is_fun_satisfied(functions[n], sequence))

FunctionList(s) == [c \in 1..Len(s.functions) |-> s.functions[c].func]

\* every prefix of s is admissible: its function list replays call by call
\* from the empty sequence
Replays(s) == Replay(FunctionList(s), 1, ApiSequence_new) # None

\* C7 as stated: the function list of every pool sequence, the sequences of
\* the coverage-repair pass included, replays from the empty sequence.
C7_EveryPoolSequenceReplays ==
    \A s \in Pool : Replays(s)

\* C7 amended: the function list of every sequence that bfs, try-deep bfs,
\* random walk or seed replay put into the pool replays from the empty
\* sequence.
C7_ForwardSequencesReplay ==
    pc \in {"walk", "searched"} => \A s \in Pool : Replays(s)

\* a forward strategy has built a sequence of three calls that take results
\* of earlier calls, over a catalog with a function that the empty sequence
\* does not admit
C7_Witness ==
    /\ pc = "searched"
    /\ \E s \in Pool :
          /\ Len(s.functions) >= 3
          /\ \E c \in Calls(s) : \E k \in Params(s, c) :
                s.functions[c].params[k].param_type = "_FunctionReturn"
    /\ \E f \in Functions : is_fun_satisfied(f, ApiSequence_new) = None

(***************************************************************************)
(* The two scenarios.                                                       *)
(***************************************************************************)
\* new() -> Builder, set(Builder, i32) -> Builder, build(Builder) -> Widget
BuilderScenario == SubCatalog(BuilderCatalog, {1, 2, 3}, 1)

FromEmpty(functions) == Replay(functions, 1, ApiSequence_new)

\* C8: in the builder catalog, with its edges by move: [new] is admitted;
\* build is not admitted on the empty sequence; [new, set] is admitted with
\* one fuzzable slot, of fixed size, and with the result of new moved;
\* [new, set, build] is admitted; set is not admitted on [new, set, build].
C8_BuilderScenario ==
    (api_functions = BuilderScenario /\ DependenciesFound) =>
        /\ \A e \in Edges : e.call_type = "_Move"
        /\ check_dependency(1, 2, 1) # None
        /\ check_dependency(2, 3, 1) # None
        /\ FromEmpty(<<1>>) # None
        /\ FromEmpty(<<3>>) = None
        /\ LET one_slot_new_moved(s) ==
                   /\ s # None
                   /\ Len(s[1].fuzzable_params) = 1
                   /\ s[1].fuzzable_params[1].kind = "fixed"
                   /\ _is_moved(s[1], 1)
           IN one_slot_new_moved(FromEmpty(<<1, 2>>))
        /\ FromEmpty(<<1, 2, 3>>) # None
        /\ FromEmpty(<<1, 2, 3, 2>>) = None

\* a search over the builder catalog has put [new, set, build] into the pool
C8_Witness ==
    /\ api_functions = BuilderScenario
    /\ \E s \in Pool : FunctionList(s) = <<1, 2, 3>>

\* open(&str) -> Handle, write(&mut Handle, &[u8]), close(&Handle)
HandleScenario == SubCatalog(HandleCatalog, {1, 2, 3}, 1)

\* C9 as stated: in the handle catalog [open, write, close] and
\* [open, write, write] are admitted.
C9_WriteAfterOpenAdmitted ==
    (api_functions = HandleScenario /\ DependenciesFound) =>
        /\ FromEmpty(<<1, 2, 3>>) # None
        /\ FromEmpty(<<1, 2, 2>>) # None

\* C9 amended: in the handle catalog [open] is admitted and write is not
\* admitted on [open], whose &str already is the one variable-length
\* fuzzable parameter a sequence may have; so neither [open, write, close]
\* nor [open, write, write] is admitted.
C9_HandleScenario ==
    (api_functions = HandleScenario /\ DependenciesFound) =>
        /\ FromEmpty(<<1>>) # None
        /\ FromEmpty(<<1, 2>>) = None
        /\ FromEmpty(<<1, 2, 3>>) = None
        /\ FromEmpty(<<1, 2, 2>>) = None

\* a search over the handle catalog has put [open] into the pool and has
\* left write unvisited
C9_Witness ==
    /\ api_functions = HandleScenario
    /\ pc = "searched"
    /\ api_functions_visited[1]
    /\ ~api_functions_visited[2]
    /\ \E s \in Pool : FunctionList(s) = <<1>>

(***************************************************************************)
(* The result of reverse_construct.                                         *)
(***************************************************************************)
\* parameter k of call c of s is bound to the result of an earlier call of
\* s along an edge of the dependency list, in the mode of that edge
BoundAlongEdge(s, c, k) ==
    LET param == s.functions[c].params[k]
    IN /\ param.param_type = "_FunctionReturn"
       /\ param.index \in 1..(c - 1)
       /\ LET dependency_index ==
                  check_dependency(s.functions[param.index].func,
                                   s.functions[c].func, k)
          IN /\ dependency_index # None
             /\ api_dependencies[dependency_index[1]].call_type = param.call_type

\* s ends in a call of tail_api_index, and every parameter of every call of
\* s that is not fuzzable is bound along an edge
EndsInWithProducers(s, tail_api_index) ==
    /\ s.functions # <<>>
    /\ s.functions[Len(s.functions)].func = tail_api_index
    /\ \A c \in Calls(s) :
          /\ Len(s.functions[c].params) = Len(api_functions[s.functions[c].func].inputs)
          /\ \A k \in Params(s, c) :
                ~is_fuzzable_type(api_functions[s.functions[c].func].inputs[k], None)
                => BoundAlongEdge(s, c, k)

\* C10: reverse_construct for a target returns None or a reverse sequence
\* whose forward order ends in the target and binds every non-fuzzable
\* parameter of every call to the result of an earlier call along an edge of
\* the dependency list.
C10_ReverseConstructBindsProducers ==
    ret # None =>
        \/ ret[1].result = None
        \/ EndsInWithProducers(_generate_api_sequence(ret[1].result[1]),
                               ret[1].tail_api_index)

\* reverse_construct returned four or more calls for a target with two
\* parameters that take results
C10_Witness ==
    /\ ret # None
    /\ ret[1].result # None
    /\ Len(ret[1].result[1].functions) >= 4
    /\ \E k1, k2 \in 1..Len(api_functions[ret[1].tail_api_index].inputs) :
          /\ k1 # k2
          /\ ~is_fuzzable_type(api_functions[ret[1].tail_api_index].inputs[k1], None)
          /\ ~is_fuzzable_type(api_functions[ret[1].tail_api_index].inputs[k2], None)

(***************************************************************************)
(* Properties of the backward search.                                       *)
(***************************************************************************)
\* the functions reverse_construct(input_fun_index) can call itself on: the
\* functions its loop visits that have an edge to a parameter of
\* input_fun_index that is not fuzzable
MayResolve(input_fun_index) ==
    {output_fun_index \in output_functions_searched(input_fun_index) :
        \E k \in 1..Len(api_functions[input_fun_index].inputs) :
            /\ ~is_fuzzable_type(api_functions[input_fun_index].inputs[k], None)
            /\ check_dependency(output_fun_index, input_fun_index, k) # None}

\* the functions reached from S in at most n further recursive calls
RECURSIVE ResolvedBelow(_, _)
ResolvedBelow(S, n) ==
    IF n = 0 THEN S
    ELSE ResolvedBelow(S \cup UNION {MayResolve(f) : f \in S}, n - 1)

\* C11: reverse_construct terminates on every dependency list, producer
\* cycles and self-edges included: no chain of recursive calls that starts
\* at a target T comes back to T or to any function resolved higher in the
\* chain, so a function that is being resolved is never entered again and
\* offers no path to the calls below it.
C11_ReverseConstructDescends ==
    DependenciesFound =>
        \A T \in Functions :
            /\ T \notin ResolvedBelow(MayResolve(T), Len(api_functions))
            /\ \A P \in ResolvedBelow(MayResolve(T), Len(api_functions)) : P < T

\* reverse_construct returned a sequence for a target that is on a producer
\* cycle, in a catalog with a self-edge
C11_Witness ==
    /\ ret # None
    /\ ret[1].result # None
    /\ \E P \in Functions \ {ret[1].tail_api_index} :
          /\ \E e \in Edges : e.output_fun = P /\ e.input_fun = ret[1].tail_api_index
          /\ \E e \in Edges : e.output_fun = ret[1].tail_api_index /\ e.input_fun = P
    /\ \E e \in Edges : e.output_fun = e.input_fun

\* C12: when reverse_construct returns None for target T, some parameter of
\* T cannot be filled: it has an unusable fuzzable encoding, or it is not
\* fuzzable and no function P other than T, of smaller or larger catalog
\* index, has an edge to it and a reverse sequence of its own.
C12_NoneOnlyWithoutProducer ==
    (ret # None /\ ret[1].result = None) =>
        LET T == ret[1].tail_api_index
        IN \E k \in 1..Len(api_functions[T].inputs) :
              IF is_fuzzable_type(api_functions[T].inputs[k], None)
              THEN fuzzable_type_of(api_functions[T].inputs[k],
                                    NoSubstitutions).kind = "NoFuzzable"
              ELSE \A P \in Functions \ {T} :
                      check_dependency(P, T, k) # None
                      => reverse_construct(P) = None

(***************************************************************************)
(* Properties of the selection.                                             *)
(***************************************************************************)
\* the result of call j of s is taken by a parameter of a later call
Consumed(s, j) ==
    \E c \in (j + 1)..Len(s.functions) : \E k \in Params(s, c) :
        TakesResult(s, c, k, j)

\* a call before the last one has a result that no later call takes
Dead(s) ==
    \E j \in 1..(Len(s.functions) - 1) :
        /\ api_functions[s.functions[j].func].output # None
        /\ ~Consumed(s, j)

\* C13: every sequence _heuristic_choose returns is not dead, has a fuzzable
\* parameter and is returned once; no dead sequence is returned.
C13_ChosenAreLiveFuzzableDistinct ==
    res # None =>
        \A n \in 1..Len(res[1].res) :
            /\ ~Dead(res[1].res[n])
            /\ res[1].res[n].fuzzable_params # <<>>
            /\ \A m \in 1..Len(res[1].res) : res[1].res[m] = res[1].res[n] => m = n

\* _heuristic_choose returned two sequences or more and left out a dead
\* sequence of the pool that has a fuzzable parameter and calls a function
\* that no returned sequence calls
C13_Witness ==
    /\ res # None
    /\ Len(res[1].res) >= 2
    /\ \E s \in Pool :
          /\ Dead(s)
          /\ s.fuzzable_params # <<>>
          /\ \E c \in Calls(s) :
                \A n \in 1..Len(res[1].res) :
                    s.functions[c].func
                        \notin _get_contained_api_functions(res[1].res[n])

(***************************************************************************)
(* Properties of one admission attempt.                                     *)
(***************************************************************************)
\* the pool and the visited flags after is_fun_satisfied admitted function f
\* on the sequence at index parent of the pool
Admitted(parent, f) ==
    /\ is_fun_satisfied(f, api_sequences[parent]) # None
    /\ api_sequences' =
           Append(api_sequences, is_fun_satisfied(f, api_sequences[parent])[1])
    /\ api_functions_visited' = [api_functions_visited EXCEPT ![f] = TRUE]

\* sequence t is the value that is_fun_satisfied returned for the function of
\* its last call on parent, whose calls t holds as they are
AdmittedOn(t, parent) ==
    /\ Len(t.functions) = Len(parent.functions) + 1
    /\ SubSeq(t.functions, 1, Len(parent.functions)) = parent.functions
    /\ is_fun_satisfied(t.functions[Len(t.functions)].func, parent) = Some(t)

\* entry n of pool is the empty sequence that a strategy starts from, or the
\* value of an admission on the empty sequence or on an entry before it,
\* which is in the pool as the admission found it
AddedBySearch(pool, n) ==
    \/ pool[n] = ApiSequence_new
    \/ AdmittedOn(pool[n], ApiSequence_new)
    \/ \E m \in 1..(n - 1) : AdmittedOn(pool[n], pool[m])

\* entry n of pool is the value of an admission on the merge of entries
\* before it, one for each parameter of the function that needs a producer
AddedByRepair(pool, n) ==
    /\ pool[n].functions # <<>>
    /\ LET node == pool[n].functions[Len(pool[n].functions)].func
       IN \E indexes \in [1..Len(needy_params(node)) -> 1..(n - 1)] :
             is_fun_satisfied(
                 node,
                 _merge_sequences([i \in 1..Len(indexes) |-> pool[indexes[i]]]))
                     = Some(pool[n])

\* the functions of the last calls of the entries of pool behind entry base
LastFunctions(pool, base) ==
    {pool[n].functions[Len(pool[n].functions)].func :
        n \in {m \in (base + 1)..Len(pool) : pool[m].functions # <<>>}}

\* C14: an attempt to admit a function leaves the dependency list alone; when
\* is_fun_satisfied returns None the pool and the visited flags stay as they
\* were and the strategy goes on, and when it admits the function every
\* sequence of the pool, the parent included, stays as it was and the new
\* sequence is added behind them.  For the random walk this is said of each
\* step, which is one attempt; for bfs, try-deep bfs and the seed replay of
\* the whole run: the entries it found in the pool, unless it cleared the
\* pool, are as they were, every entry behind them is the empty sequence or
\* the value of an admission on an entry before it, and the flags that are
\* set are those of the admitted functions; for the coverage-repair pass
\* likewise, the parent being a merge of entries, from the pool it finds
\* or, in the direct backward search, from the empty pool.
C14_AttemptLeavesPoolEntriesAlone ==
    [][/\ (pc = "walk" \/ pc' \in {"searched", "covered"}) =>
          /\ api_dependencies' = api_dependencies
          /\ api_functions' = api_functions
       /\ pc = "walk" =>
          /\ walk'.i = walk.i + 1
          /\ \/ UNCHANGED <<api_sequences, api_functions_visited>>
             \/ \E parent \in 1..Len(api_sequences) : \E f \in Functions :
                   Admitted(parent, f)
          /\ (\A parent \in 1..Len(api_sequences) : \A f \in Functions :
                 is_fun_satisfied(f, api_sequences[parent]) = None)
             => UNCHANGED <<api_sequences, api_functions_visited>>
       /\ (pc \in {"ready", "rebuilt", "searched"} /\ pc' = "searched") =>
          \E base \in {0, Len(api_sequences)} :
             /\ Len(api_sequences') >= base
             /\ SubSeq(api_sequences', 1, base) = SubSeq(api_sequences, 1, base)
             /\ \A n \in (base + 1)..Len(api_sequences') :
                   AddedBySearch(api_sequences', n)
             /\ \A f \in Functions :
                   api_functions_visited'[f]
                       <=> f \in LastFunctions(api_sequences', base)
       /\ (pc \in {"ready", "rebuilt", "searched"} /\ pc' = "covered") =>
          LET pool == IF pc = "searched" THEN api_sequences ELSE <<>>
              visited == IF pc = "searched" THEN api_functions_visited
                         ELSE reset_visited
          IN /\ Len(api_sequences') >= Len(pool)
             /\ SubSeq(api_sequences', 1, Len(pool)) = pool
             /\ \A n \in (Len(pool) + 1)..Len(api_sequences') :
                   AddedByRepair(api_sequences', n)
             /\ \A f \in Functions :
                   api_functions_visited'[f]
                       <=> \/ visited[f]
                           \/ f \in LastFunctions(api_sequences', Len(pool))
             /\ \A f \in LastFunctions(api_sequences', Len(pool)) :
                   ~visited[f]]_vars

\* a random walk of two attempts without skips is over: one attempt was
\* refused and the other admitted a function on the empty sequence
C14_Witness ==
    /\ pc = "searched"
    /\ walk.max_size = 2
    /\ walk.i = 2
    /\ ~walk.stop_at_end_function
    /\ walk.max_depth = 0
    /\ Len(api_sequences) = 2
    /\ api_sequences[1] = ApiSequence_new
    /\ Len(api_sequences[2].functions) = 1

\* parameter k of function f is fuzzable and has no encoding
Unencodable(f, k) ==
    /\ is_fuzzable_type(api_functions[f].inputs[k],
                        Some(api_functions[f].generic_substitutions))
    /\ fuzzable_type_of(api_functions[f].inputs[k],
                        api_functions[f].generic_substitutions).kind = "NoFuzzable"

\* C15: is_fun_satisfied returns None for a function with a parameter that
\* is fuzzable without an encoding, on every sequence of the pool, whatever
\* results the sequence holds and whatever the other parameters are.
C15_UnencodableParameterRefused ==
    pc # "new" =>
        \A f \in Functions :
            (\E k \in 1..Len(api_functions[f].inputs) : Unencodable(f, k))
            => \A s \in Pool : is_fun_satisfied(f, s) = None

\* the pool holds a sequence with a result that is not moved and has an edge
\* to the unencodable parameter of a function whose other parameters all
\* have an encoding
C15_Witness ==
    /\ pc # "new"
    /\ \E f \in Functions : \E k \in 1..Len(api_functions[f].inputs) :
          /\ Unencodable(f, k)
          /\ \A other \in 1..Len(api_functions[f].inputs) \ {k} :
                /\ is_fuzzable_type(api_functions[f].inputs[other],
                                    Some(api_functions[f].generic_substitutions))
                /\ ~Unencodable(f, other)
          /\ \E s \in Pool : \E j \in Calls(s) :
                /\ ~_is_moved(s, j)
                /\ check_dependency(s.functions[j].func, f, k) # None

\* the triples the dependency list is to hold: p is not an end function and
\* returns a value, c is not a start function, and the oracle calls the
\* substituted return type of p compatible with the substituted type of
\* parameter k of c
Compatible(p, c, k) ==
    /\ api_functions[p].output # None
    /\ ReturnOf(p) # None
    /\ InputOf(c, k) # None
    /\ _same_type(ReturnOf(p)[1], InputOf(c, k)[1]) # "_NotCompatible"

Expected(p, c, k) ==
    /\ ~_is_end_function(api_functions[p])
    /\ ~_is_start_function(api_functions[c])
    /\ Compatible(p, c, k)

\* C16: once find_all_dependencies has run, the dependency list holds an
\* edge (p, c, k) exactly for the triples where p is not an end function and
\* has a return type, c is not a start function and the oracle calls p's
\* return type compatible with parameter k of c, p = c included; each triple
\* has one edge.
C16_EdgesAreExactlyTheCompatibleTriples ==
    DependenciesFound =>
        /\ \A p \in Functions, c \in Functions :
              \A k \in 1..Len(api_functions[c].inputs) :
                  Expected(p, c, k) <=>
                      \E e \in Edges : /\ e.output_fun = p
                                       /\ e.input_fun = c
                                       /\ e.input_param_index = k
        /\ \A e \in Edges :
              /\ e.output_fun \in Functions
              /\ e.input_fun \in Functions
              /\ e.input_param_index \in 1..Len(api_functions[e.input_fun].inputs)
        /\ \A m, n \in 1..Len(api_dependencies) :
              /\ api_dependencies[m].output_fun = api_dependencies[n].output_fun
              /\ api_dependencies[m].input_fun = api_dependencies[n].input_fun
              /\ api_dependencies[m].input_param_index
                     = api_dependencies[n].input_param_index
              => m = n

\* the list holds a self-edge, and the catalog has a compatible triple left
\* out for its end-function producer and one left out for its start-function
\* consumer
C16_Witness ==
    /\ pc = "ready"
    /\ \E e \in Edges : e.output_fun = e.input_fun
    /\ \E p \in Functions, c \in Functions :
          \E k \in 1..Len(api_functions[c].inputs) :
              /\ _is_end_function(api_functions[p])
              /\ ~_is_start_function(api_functions[c])
              /\ Compatible(p, c, k)
    /\ \E p \in Functions, c \in Functions :
          \E k \in 1..Len(api_functions[c].inputs) :
              /\ ~_is_end_function(api_functions[p])
              /\ _is_start_function(api_functions[c])
              /\ Compatible(p, c, k)

(***************************************************************************)
(* Properties of the choice of a producer.                                  *)
(***************************************************************************)
\* the access mode of the edge from the function of call j of s to parameter
\* k of function f
EdgeMode(s, j, f, k) ==
    api_dependencies[check_dependency(s.functions[j].func, f, k)[1]].call_type

\* a parameter of a call before call c of s, or a parameter before k of c
\* itself, moved the result of call j
MovedBefore(s, c, k, j) ==
    \E c1 \in Calls(s) : \E k1 \in Params(s, c1) :
        /\ c1 < c \/ (c1 = c /\ k1 < k)
        /\ TakesResult(s, c1, k1, j)
        /\ Mode(s, c1, k1) = "_Move"

\* a parameter before k of the call under construction, whose bound
\* parameters are params, took the result of call j under mode
TakenBefore(params, k, j, mode) ==
    \E k1 \in 1..Len(params) :
        /\ k1 < k
        /\ params[k1].param_type = "_FunctionReturn"
        /\ params[k1].index = j
        /\ params[k1].call_type = mode

\* the result of call j of s can fill parameter k of a call of f that comes
\* as call c, given the parameters bound before k: j is an earlier call with
\* an edge to the parameter, its result is not moved, and the mode of the
\* edge does not meet a borrow of the result by the same call
Available(s, params, c, f, k, j) ==
    /\ j < c
    /\ check_dependency(s.functions[j].func, f, k) # None
    /\ ~MovedBefore(s, c, k, j)
    /\ ~TakenBefore(params, k, j, "_Move")
    /\ EdgeMode(s, j, f, k) \in {"_Move", "_MutBorrowedRef"}
       => /\ ~TakenBefore(params, k, j, "_MutBorrowedRef")
          /\ ~TakenBefore(params, k, j, "_BorrowedRef")
    /\ EdgeMode(s, j, f, k) = "_BorrowedRef"
       => ~TakenBefore(params, k, j, "_MutBorrowedRef")

\* every parameter of new_call, admitted as call c behind s, that takes a
\* result takes the first available one, under the mode of its edge
LowestAvailable(s, c, new_call) ==
    \A k \in 1..Len(new_call.params) :
        new_call.params[k].param_type = "_FunctionReturn" =>
            /\ Available(s, new_call.params, c, new_call.func, k,
                         new_call.params[k].index)
            /\ new_call.params[k].call_type
                   = EdgeMode(s, new_call.params[k].index, new_call.func, k)
            /\ \A j \in 1..(new_call.params[k].index - 1) :
                  ~Available(s, new_call.params, c, new_call.func, k, j)

\* the parameters of f that are not fuzzable
NonFuzzable(f) ==
    {k \in 1..Len(api_functions[f].inputs) :
        ~is_fuzzable_type(api_functions[f].inputs[k],
                          Some(api_functions[f].generic_substitutions))}

\* every fuzzable parameter of f has an encoding, and s with the fuzzable
\* parameters of f has at most one of variable length
FuzzablesFit(s, f) ==
    /\ \A k \in 1..Len(api_functions[f].inputs) : ~Unencodable(f, k)
    /\ _dynamic_length_param_number(s)
         + Cardinality({k \in 1..Len(api_functions[f].inputs) \ NonFuzzable(f) :
               fuzzable_type_of(api_functions[f].inputs[k],
                                api_functions[f].generic_substitutions).kind
                   = "dynamic"}) <= 1

\* the parameters 1..k of a call of f behind s, each parameter that is not
\* fuzzable taking the first call of s that is available to it given the
\* parameters before it; None when one of them has no available call
RECURSIVE FirstAvailable(_, _, _)
FirstAvailable(s, f, k) ==
    IF k = 0 THEN Some(<<>>)
    ELSE LET before == FirstAvailable(s, f, k - 1)
             available(params) ==
                 {j \in Calls(s) :
                     Available(s, params, Len(s.functions) + 1, f, k, j)}
             first(js) == CHOOSE j \in js : \A other \in js : j <= other
             bind(params) ==
                 IF k \notin NonFuzzable(f)
                 THEN Some(Append(params, [param_type |-> "_FuzzableType",
                                           index |-> 0,
                                           call_type |-> "_NotCompatible"]))
                 ELSE IF available(params) = {} THEN None
                 ELSE Some(Append(params,
                           [param_type |-> "_FunctionReturn",
                            index |-> first(available(params)),
                            call_type |-> EdgeMode(s, first(available(params)),
                                                   f, k)]))
         IN IF before = None THEN None ELSE bind(before[1])

\* C17: the call that an admission adds, on a sequence built call by call
\* and on a sequence of the coverage-repair pass alike, binds each parameter
\* that takes a result to the lowest-indexed earlier call that has an edge to
\* the parameter and is still available under the mode of that edge; in a
\* sequence built call by call this holds of every call; and is_fun_satisfied
\* returns None exactly when some parameter that is not fuzzable has no such
\* call, the fuzzable parameters being acceptable.
C17_LowestAvailableProducerIsBound ==
    pc \in {"walk", "searched", "covered"} =>
        \A s \in Pool :
            /\ pc # "covered" =>
                  \A c \in Calls(s) : LowestAvailable(s, c, s.functions[c])
            /\ s.functions # <<>> =>
                  LowestAvailable(s, Len(s.functions),
                                  s.functions[Len(s.functions)])
            /\ \A f \in Functions :
                  LET new_sequence == is_fun_satisfied(f, s)
                      c == Len(s.functions) + 1
                  IN /\ new_sequence # None =>
                           LowestAvailable(new_sequence[1], c,
                                           new_sequence[1].functions[c])
                     /\ FuzzablesFit(s, f) =>
                           ((new_sequence = None) <=>
                               FirstAvailable(s, f, Len(api_functions[f].inputs))
                                   = None)

\* the coverage-repair pass has put into the pool a sequence that replaying
\* its functions does not build, and its last call, which the pass admitted
\* on a merge, takes the result of a call that is not the first
C17_Witness ==
    /\ pc = "covered"
    /\ \E s \in Pool :
          /\ Replay(FunctionList(s), 1, ApiSequence_new) # Some(s)
          /\ \E k \in Params(s, Len(s.functions)) :
                /\ s.functions[Len(s.functions)].params[k].param_type
                       = "_FunctionReturn"
                /\ s.functions[Len(s.functions)].params[k].index > 1

\* make(i32) -> H, pair(&H, &H) -> W
PairScenario == SubCatalog(BorrowCatalog, {1, 5}, 1)

\* the calls of s whose result is not moved and has an edge to parameter k
\* of f
Producers(s, f, k) ==
    {j \in Calls(s) : /\ ~_is_moved(s, j)
                      /\ check_dependency(s.functions[j].func, f, k) # None}

\* f has two parameters, of one type, and call j of s is the one producer of
\* both, by shared borrow
TwoSharedOneProducer(s, f, j) ==
    /\ Len(api_functions[f].inputs) = 2
    /\ api_functions[f].inputs[1] = api_functions[f].inputs[2]
    /\ Producers(s, f, 1) = {j}
    /\ Producers(s, f, 2) = {j}
    /\ EdgeMode(s, j, f, 1) = "_BorrowedRef"
    /\ EdgeMode(s, j, f, 2) = "_BorrowedRef"

\* r is a sequence: s and behind it a call of f, both parameters of which
\* take the result of call j by shared borrow
BothBorrow(r, s, f, j) ==
    /\ r # None
    /\ Len(r[1].functions) = Len(s.functions) + 1
    /\ LET api_call == r[1].functions[Len(r[1].functions)]
       IN /\ api_call.func = f
          /\ api_call.params =
                 << [param_type |-> "_FunctionReturn", index |-> j,
                     call_type |-> "_BorrowedRef"],
                    [param_type |-> "_FunctionReturn", index |-> j,
                     call_type |-> "_BorrowedRef"] >>
    /\ ~_is_moved(r[1], j)

\* C18: a function with two shared-borrow parameters of one type is admitted
\* on a sequence that holds one producer whose result is not moved, and both
\* parameters take that result; so pair(&H, &H) is admitted on [make].
C18_SharedBorrowTwiceInOneCall ==
    /\ pc \in {"walk", "searched"} =>
          \A s \in Pool : \A f \in Functions : \A j \in Calls(s) :
              TwoSharedOneProducer(s, f, j)
              => BothBorrow(is_fun_satisfied(f, s), s, f, j)
    /\ (api_functions = PairScenario /\ DependenciesFound) =>
          /\ FromEmpty(<<1>>) # None
          /\ BothBorrow(FromEmpty(<<1, 2>>), FromEmpty(<<1>>)[1], 2, 1)

\* a search over make and pair has put [make, pair] into the pool
C18_Witness ==
    /\ api_functions = PairScenario
    /\ pc = "searched"
    /\ \E s \in Pool : FunctionList(s) = <<1, 2>>

(***************************************************************************)
(* Properties of bfs.                                                       *)
(***************************************************************************)
\* the sequences that pool holds behind the sequences of api_sequences
AddedTo(pool) ==
    {pool[n] : n \in (Len(api_sequences) + 1)..Len(pool)}

\* C19: bfs(max_len, ..) makes max_len passes over the frontier and returns:
\* it keeps the pool it was called on, adds nothing when max_len is 0, and
\* adds no sequence of more than max_len calls; with the max_len of
\* generate_all_possoble_sequences no added sequence has more than 3 calls.
C19_BfsAddsNoLongerThanMaxLen ==
    CanSearch =>
        /\ \A max_len \in 0..MaxLen, stop_at_end_function \in BOOLEAN,
              fast_mode \in BOOLEAN :
              LET bounded(g) ==
                      /\ SubSeq(g.pool, 1, Len(api_sequences)) = api_sequences
                      /\ max_len = 0 => g.pool = api_sequences
                      /\ \A s \in AddedTo(g.pool) : Len(s.functions) <= max_len
              IN bounded(bfs(max_len, stop_at_end_function, fast_mode))
        /\ \A s \in AddedTo(bfs(bfs_max_len, FALSE, FALSE).pool) :
              Len(s.functions) <= 3

\* a search has put a sequence of bfs_max_len calls into the pool, no longer
\* one, and a function is admitted on a sequence of bfs_max_len calls
C19_Witness ==
    /\ pc = "searched"
    /\ walk = NoWalk
    /\ api_sequences # <<>>
    /\ api_sequences[1] = ApiSequence_new
    /\ \A s \in Pool : Len(s.functions) <= bfs_max_len
    /\ \E s \in Pool :
          /\ Len(s.functions) = bfs_max_len
          /\ \E f \in Functions : is_fun_satisfied(f, s) # None

\* the lists of at most n functions that are admitted call by call from the
\* empty sequence
AdmissibleChains(n) ==
    {chain \in UNION {[1..m -> Functions] : m \in 0..n} :
        FromEmpty(chain) # None}

\* pool holds the sequences of the admissible chains of at most n functions,
\* each once, and nothing else
ExactlyTheChains(pool, n) ==
    /\ Range(pool) = {FromEmpty(chain)[1] : chain \in AdmissibleChains(n)}
    /\ Len(pool) = Cardinality(AdmissibleChains(n))

\* bfs is called on an empty pool
EmptyPoolBeforeSearch ==
    /\ pc \in {"ready", "rebuilt"}
    /\ api_sequences = <<>>

\* C20 as stated: for every max_len, bfs(max_len, false, false) on an empty
\* pool leaves the empty sequence and one sequence for each admissible chain
\* of at most max_len functions, and nothing else.
C20_BfsExhaustiveForEveryMaxLen ==
    EmptyPoolBeforeSearch =>
        \A max_len \in 0..MaxLen :
            ExactlyTheChains(bfs(max_len, FALSE, FALSE).pool, max_len)

\* C20 amended: for max_len >= 1, bfs(max_len, false, false) on an empty pool
\* leaves the empty sequence and one sequence for each admissible chain of
\* at most max_len functions, and nothing else; bfs(0, false, false) leaves
\* the pool empty.
C20_BfsExhaustiveFromMaxLenOne ==
    EmptyPoolBeforeSearch =>
        /\ \A max_len \in 1..MaxLen :
              /\ ExactlyTheChains(bfs(max_len, FALSE, FALSE).pool, max_len)
              /\ bfs(max_len, FALSE, FALSE).pool[1] = ApiSequence_new
        /\ bfs(0, FALSE, FALSE).pool = <<>>

\* a search has left the sequences of the admissible chains of at most three
\* functions, ten or more, and some chain of three functions is not
\* admissible
C20_Witness ==
    /\ pc = "searched"
    /\ walk = NoWalk
    /\ Len(api_sequences) >= 10
    /\ ExactlyTheChains(api_sequences, 3)
    /\ \E chain \in [1..3 -> Functions] : FromEmpty(chain) = None

(***************************************************************************)
(* Properties of the fast bfs.                                              *)
(***************************************************************************)
\* C21: in fast mode, from the moment check_all_visited is true (every
\* function is visited or, for a library of the tuning table, as many
\* functions are visited as the table says) bfs adds no sequence to the pool.
C21_FastBfsAddsNothingOnceCovered ==
    [][(pc = "bfs" /\ at.fast_mode /\ check_all_visited(api_functions_visited))
          => api_sequences' = api_sequences]_vars

\* C21 for the libraries that the tuning table does not list: once every
\* function is visited the fast bfs adds nothing, every candidate being
\* skipped as visited
C21_FastBfsAddsNothingOnceAllVisited ==
    [][(pc = "bfs" /\ at.fast_mode
           /\ \A i \in 1..Len(api_functions_visited) : api_functions_visited[i])
          => api_sequences' = api_sequences]_vars

\* an end function occurs in the sequences of pool only as the final call
EndOnlyLast(pool) ==
    \A n \in 1..Len(pool) :
       \A c \in 1..Len(pool[n].functions) :
          _is_end_function(api_functions[pool[n].functions[c].func])
             => c = Len(pool[n].functions)

\* C22: when stop-at-end is in force and the pool is empty at entry (bfs
\* with stop_at_end_function, every _try_deep_bfs run, random_walk with
\* stop_at_end_function), a sequence whose last call is an end function is
\* never extended: in every pool sequence an end function occurs only as
\* the final call.
C22_EndFunctionOnlyAsFinalCall ==
    /\ (CanSearch /\ api_sequences = <<>>) =>
          /\ \A max_len \in 0..MaxLen, fast_mode \in BOOLEAN :
                EndOnlyLast(bfs(max_len, TRUE, fast_mode).pool)
          /\ \A max_sequence_number \in MaxSequenceNumbers :
                EndOnlyLast(_try_deep_bfs(max_sequence_number).pool)
    /\ (pc \in {"walk", "searched"} /\ walk.stop_at_end_function) =>
          EndOnlyLast(api_sequences)

\* a random walk that stops at end functions has admitted an end function,
\* and some function would be admitted after it
C22_Witness ==
    /\ pc \in {"walk", "searched"}
    /\ walk.stop_at_end_function
    /\ \E s \in Pool :
          /\ is_sequence_ended(s)
          /\ \E f \in Functions : is_fun_satisfied(f, s) # None

\* the functions and the covered edges of the sequences of pool that have at
\* most len calls
CoverageUpTo(pool, len) ==
    LET short == {n \in 1..Len(pool) : Len(pool[n].functions) <= len}
    IN [nodes |-> UNION {_get_contained_api_functions(pool[n]) : n \in short},
        edges |-> UNION {pool[n]._covered_dependencies : n \in short}]

\* the pass over the sequences of len calls admitted nothing that holds a
\* function or a covered edge absent from the sequences admitted before
NoNewCoverage(pool, len) == CoverageUpTo(pool, len + 1) = CoverageUpTo(pool, len)

\* pool is what _try_deep_bfs leaves: no pass follows a pass without new
\* coverage, and no sequence is longer than the catalog
DeepBfsStopped(pool) ==
    /\ \A len \in 0..Len(api_functions) :
          NoNewCoverage(pool, len) =>
             \A n \in 1..Len(pool) : Len(pool[n].functions) <= len + 1
    /\ \A n \in 1..Len(pool) : Len(pool[n].functions) <= Len(api_functions)

\* C23: _try_deep_bfs terminates on every catalog, performs no further
\* frontier pass after the first pass in which no admitted sequence contains
\* a function or a covered edge absent from all sequences admitted before
\* it, and produces no sequence longer than the catalog size.
C23_DeepBfsStopsWithoutNewCoverage ==
    pc \in {"ready", "rebuilt"} =>
        \A max_sequence_number \in MaxSequenceNumbers :
           DeepBfsStopped(_try_deep_bfs(max_sequence_number).pool)

\* _try_deep_bfs has stopped after a pass without new coverage although the
\* catalog allows a longer sequence and an admitted sequence can be extended
C23_Witness ==
    /\ pc = "searched"
    /\ walk = NoWalk
    /\ api_sequences # <<>>
    /\ api_sequences[1] = ApiSequence_new
    /\ DeepBfsStopped(api_sequences)
    /\ \E len \in 1..Len(api_functions) :
          /\ len + 2 <= Len(api_functions)
          /\ NoNewCoverage(api_sequences, len)
          /\ \E s \in Pool :
                /\ Len(s.functions) = len + 1
                /\ ~is_sequence_ended(s)
                /\ \E f \in Functions : is_fun_satisfied(f, s) # None

\* (number of pool sequences) x (number of visited functions) when the pass
\* over the sequences of len calls starts: _try_deep_bfs clears the pool, so
\* the pool then holds the sequences of at most len calls, and the visited
\* functions are their last calls
ProductAt(pool, len) ==
    LET short == {n \in 1..Len(pool) : Len(pool[n].functions) <= len}
        last(n) == pool[n].functions[Len(pool[n].functions)].func
    IN Cardinality(short)
         * Cardinality({last(n) : n \in {m \in short : pool[m].functions # <<>>}})

\* the pass over the sequences of len calls has run and admitted a sequence
PassAdmitted(pool, len) ==
    \E n \in 1..Len(pool) : Len(pool[n].functions) = len + 1

\* C24: _try_deep_bfs starts no frontier pass in a state where (pool
\* sequences) x (visited functions) exceeds max_sequence_number, for every
\* frontier length including 0, 1 and 2.
C24_NoPassAboveCeiling ==
    pc \in {"ready", "rebuilt"} =>
        \A max_sequence_number \in MaxSequenceNumbers :
           LET within(pool) ==
                   \A len \in 0..Len(api_functions) :
                      PassAdmitted(pool, len)
                         => ProductAt(pool, len) <= max_sequence_number
           IN within(_try_deep_bfs(max_sequence_number).pool)

\* what the test "len > 2 && .." does keep: no frontier pass of a length
\* above 2 starts in a state where (pool sequences) x (visited functions)
\* reaches or exceeds max_sequence_number
C24_NoPassAboveCeilingBeyondLengthTwo ==
    pc \in {"ready", "rebuilt"} =>
        \A max_sequence_number \in MaxSequenceNumbers :
           LET within(pool) ==
                   \A len \in 3..Len(api_functions) :
                      PassAdmitted(pool, len)
                         => ProductAt(pool, len) < max_sequence_number
           IN within(_try_deep_bfs(max_sequence_number).pool)

\* C25 as stated: random_walk(max_size, ..) clears the pool, performs
\* exactly max_size steps whether or not all functions become visited, adds
\* at most one sequence per step (the pool ends with at most max_size + 1
\* sequences), and then terminates normally.
C25_WalkTakesExactlyMaxSizeSteps ==
    (pc \in {"walk", "searched"} /\ walk.max_size > 0) =>
        /\ walk.i <= walk.max_size
        /\ pc = "searched" <=> walk.i = walk.max_size
        /\ Len(api_sequences) <= walk.i + 1

\* C25 on a catalog with at least one function: random_walk(max_size, ..)
\* clears the pool down to the empty sequence, performs exactly max_size
\* steps whether or not all functions become visited, adds at most one
\* sequence per step, and then terminates; on a catalog without functions it
\* clears the pool and returns without a step.
C25_WalkTakesExactlyMaxSizeStepsOnFunctions ==
    (pc \in {"walk", "searched"} /\ walk.max_size > 0) =>
        IF Len(api_functions) <= 0
        THEN /\ pc = "searched"
             /\ walk.i = 0
             /\ api_sequences = <<>>
        ELSE /\ walk.i <= walk.max_size
             /\ pc = "searched" <=> walk.i = walk.max_size
             /\ api_sequences # <<>>
             /\ api_sequences[1] = ApiSequence_new
             /\ Len(api_sequences) <= walk.i + 1

\* a walk of two steps on a catalog of one function is over: the first step
\* visited every function, and the second step was taken and admitted a
\* sequence as well
C25_Witness ==
    /\ pc = "searched"
    /\ walk.max_size = 2
    /\ walk.i = 2
    /\ Len(api_functions) = 1
    /\ api_functions_visited[1]
    /\ Len(api_sequences) = 3

\* the functions that one full pass of _try_to_cover_unvisited_nodes over
\* the unvisited functions would cover on this pool
OneMorePass(pool, visited) ==
    cover_nodes([pool |-> pool, visited |-> visited,
                 covered_node_this_iteration |-> {}],
                _choose_candidate_sequence_for_merge(pool),
                SelectSeq(Iota(Len(visited)), LAMBDA i : ~visited[i]),
                1).covered_node_this_iteration

\* the flags _try_to_cover_unvisited_nodes starts from:
\* _DirectBackwardSearch resets them first
FlagsAtEntry ==
    IF pc = "searched" THEN api_functions_visited ELSE reset_visited

PoolAtEntry == IF pc = "searched" THEN api_sequences ELSE <<>>

\* C26: _try_to_cover_unvisited_nodes terminates after at most as many
\* passes as there were unvisited functions at entry, and when it stops it
\* is at a fixpoint: one more full pass over the remaining unvisited
\* functions would cover none of them.  Every function it covers becomes
\* visited and gains a pool sequence whose last call is that function.
C26_CoverStopsAtFixpoint ==
    [][(pc # "covered" /\ pc' = "covered") =>
          LET covered == {f \in Functions :
                             api_functions_visited'[f] /\ ~FlagsAtEntry[f]}
              added == {n \in 1..Len(api_sequences') : n > Len(PoolAtEntry)}
          IN /\ OneMorePass(api_sequences', api_functions_visited') = {}
             /\ \A f \in Functions : FlagsAtEntry[f] => api_functions_visited'[f]
             /\ \A n \in 1..Len(PoolAtEntry) : api_sequences'[n] = PoolAtEntry[n]
             /\ Cardinality(added) = Cardinality(covered)
             /\ \A f \in covered :
                   \E n \in added :
                      _last_api_func_index(api_sequences'[n]) = Some(f)
      ]_vars

\* the passes have stopped with a function covered through the sequence of
\* a function covered in an earlier pass, and a function is left that no
\* further pass covers
C26_Witness ==
    /\ pc = "covered"
    /\ \E f \in Functions : ~api_functions_visited[f]
    /\ \E s \in Pool :
          /\ Len(s.functions) >= 3
          /\ api_functions_visited[s.functions[3].func]
    /\ OneMorePass(api_sequences, api_functions_visited) = {}

(***************************************************************************)
(* Properties of the list _heuristic_choose returns.                        *)
(***************************************************************************)
\* the sequence has a fuzzable parameter of variable length
VariableLength(s) == ~_is_fuzzables_fixed_length(s)

\* C27: in the list returned by _heuristic_choose every sequence that has a
\* variable-length fuzzable parameter precedes every sequence whose fuzzable
\* parameters are all fixed-length; once the selector has switched to the
\* fixed-length tier it never selects a variable-length sequence again.
C27_VariableLengthBeforeFixedLength ==
    res # None =>
        \A n \in 1..Len(res[1].res) : \A m \in 1..Len(res[1].res) :
            (VariableLength(res[1].res[m]) /\ ~VariableLength(res[1].res[n]))
               => m < n

\* _heuristic_choose returned a variable-length sequence and after it a
\* fixed-length one, and left out a variable-length sequence of the pool
\* that it could have returned
C27_Witness ==
    /\ res # None
    /\ \E n \in 1..Len(res[1].res) : \E m \in 1..Len(res[1].res) :
          /\ m < n
          /\ VariableLength(res[1].res[m])
          /\ ~VariableLength(res[1].res[n])
    /\ \E s \in Pool :
          /\ valid_fuzz_sequence(s)
          /\ VariableLength(s)
          /\ \A n \in 1..Len(res[1].res) : res[1].res[n] # s

\* the selection loop of the call whose result res holds; the pool is the
\* one the call ran on
Selection ==
    choose_loop(res[1].max_size, res[1].stop_at_visit_all_nodes)
        .sorted_chosen_sequences

\* the pool indexes picked before pick k
PickedBefore(picks, k) == {picks[n] : n \in 1..(k - 1)}

\* the functions of pool sequence j that no pick before pick k calls
NewNodes(picks, k, j) ==
    Cardinality(_get_contained_api_functions(api_sequences[j])
                   \ UNION {_get_contained_api_functions(api_sequences[i]) :
                               i \in PickedBefore(picks, k)})

\* the covered edges of pool sequence j that no pick before pick k covers
NewEdges(picks, k, j) ==
    Cardinality(api_sequences[j]._covered_dependencies
                   \ UNION {api_sequences[i]._covered_dependencies :
                               i \in PickedBefore(picks, k)})

\* the sequences pick k is made among: not dead, with fuzzables, not picked
\* before, of the tier of the pick
Eligible(picks, k) ==
    {j \in 1..Len(api_sequences) :
        /\ valid_fuzz_sequence(api_sequences[j])
        /\ j \notin PickedBefore(picks, k)
        /\ VariableLength(api_sequences[j])
              = VariableLength(api_sequences[picks[k]])}

\* pool sequence j is ahead of pool sequence i at pick k on (new functions,
\* new edges, shortest length)
Ahead(picks, k, j, i) ==
    \/ NewNodes(picks, k, j) > NewNodes(picks, k, i)
    \/ /\ NewNodes(picks, k, j) = NewNodes(picks, k, i)
       /\ NewEdges(picks, k, j) > NewEdges(picks, k, i)
    \/ /\ NewNodes(picks, k, j) = NewNodes(picks, k, i)
       /\ NewEdges(picks, k, j) = NewEdges(picks, k, i)
       /\ Len(api_sequences[j].functions) < Len(api_sequences[i].functions)

BestAt(picks, k) ==
    \A j \in Eligible(picks, k) :
        /\ ~Ahead(picks, k, j, picks[k])
        /\ ~Ahead(picks, k, picks[k], j) => picks[k] <= j

\* C28: each pick of _heuristic_choose is, among the eligible sequences of
\* the current tier (not dead, with fuzzables, not yet chosen), one that is
\* lexicographically maximal on (functions not yet covered by earlier picks,
\* edges not yet covered by earlier picks, shortest length); among full ties
\* the sequence earliest in the pool is picked.
C28_PickIsLexicographicallyMaximal ==
    (res # None /\ res[1].res # <<>>) =>
        LET best(picks) ==
                /\ picks # <<>>
                /\ \A k \in 1..Len(picks) :
                      /\ picks[k] \in Eligible(picks, k)
                      /\ BestAt(picks, k)
        IN best(Selection)

\* a pick was made against a later sequence that ties with it in full, and
\* a pick against a longer sequence with the same gains
C28_Witness ==
    /\ res # None
    /\ Len(res[1].res) >= 2
    /\ LET tied(picks) ==
               /\ \E k \in 1..Len(picks) : \E j \in Eligible(picks, k) :
                     /\ j > picks[k]
                     /\ ~Ahead(picks, k, picks[k], j)
                     /\ ~Ahead(picks, k, j, picks[k])
               /\ \E k \in 1..Len(picks) : \E l \in Eligible(picks, k) :
                     /\ NewNodes(picks, k, l) = NewNodes(picks, k, picks[k])
                     /\ NewEdges(picks, k, l) = NewEdges(picks, k, picks[k])
                     /\ Len(api_sequences[l].functions)
                           > Len(api_sequences[picks[k]].functions)
       IN tied(Selection)

\* what the selection loop of the call whose result res holds ends with
SelectionEnd ==
    choose_loop(res[1].max_size, res[1].stop_at_visit_all_nodes)

\* the picks made in the variable-length tier: the tier is never entered
\* again, so they are the variable-length picks
VariablePicks(picks) ==
    SelectSeq(picks, LAMBDA j : VariableLength(api_sequences[j]))

\* the variable-length sequences that were eligible and unchosen when the
\* tier was left
LeftBehind(picks) ==
    {j \in 1..Len(api_sequences) :
        /\ valid_fuzz_sequence(api_sequences[j])
        /\ VariableLength(api_sequences[j])
        /\ j \notin Range(picks)}

\* C29 as stated: _heuristic_choose leaves the variable-length tier only
\* when that tier yields zero marginal gain: at the moment of the switch no
\* unchosen eligible variable-length sequence would add a not-yet-covered
\* function or a not-yet-covered edge.
C29_SwitchOnlyWithoutGain ==
    (res # None /\ \E s \in Pool : valid_fuzz_sequence(s)) =>
        LET nogain(h, picks) ==
                ~h.try_to_find_dynamic_length_flag =>
                    \A j \in LeftBehind(picks) :
                       /\ NewNodes(picks, Len(picks) + 1, j) = 0
                       /\ NewEdges(picks, Len(picks) + 1, j) = 0
        IN nogain(SelectionEnd,
                  VariablePicks(SelectionEnd.sorted_chosen_sequences))

\* C29 for functions: _heuristic_choose leaves the variable-length tier only
\* when at the moment of the switch no unchosen eligible variable-length
\* sequence would add a not-yet-covered function.
C29_SwitchOnlyWithoutNewFunction ==
    (res # None /\ \E s \in Pool : valid_fuzz_sequence(s)) =>
        LET nogain(h, picks) ==
                ~h.try_to_find_dynamic_length_flag =>
                    \A j \in LeftBehind(picks) :
                       NewNodes(picks, Len(picks) + 1, j) = 0
        IN nogain(SelectionEnd,
                  VariablePicks(SelectionEnd.sorted_chosen_sequences))

\* the variable-length tier was left after a pick, with a variable-length
\* sequence unchosen, and a fixed-length sequence was picked after it
C29_Witness ==
    /\ res # None
    /\ \E s \in Pool : valid_fuzz_sequence(s)
    /\ LET left(h, picks) ==
               /\ ~h.try_to_find_dynamic_length_flag
               /\ picks # <<>>
               /\ LeftBehind(picks) # {}
               /\ Len(h.sorted_chosen_sequences) > Len(picks)
       IN left(SelectionEnd,
               VariablePicks(SelectionEnd.sorted_chosen_sequences))

(***************************************************************************)
(* Properties of the seed replay.                                           *)
(***************************************************************************)
\* the frequency fields that are tried; they are read as 1 and as 2
Frequencies == {"1", "x2"}

\* every name of the line is the name of a function of the catalog
AllNamed(line) ==
    \A n \in 1..Len(line.functions) :
        \E i \in 1..Len(api_functions) :
            api_functions[i].full_name = line.functions[n]

\* the loop reads the line, and the chain of the line names a function that
\* the catalog does not hold
NamesAbsent(line) ==
    /\ read_line(line) # None
    /\ ~AllNamed(read_line(line)[1])

\* the corpus files of CorpusFiles, and the chains of Corpora under every
\* choice of frequencies
SeedFiles ==
    (CorpusFiles \ {None})
        \cup UNION {{Some([n \in 1..Len(sequences) |->
                              Line(freq[n], sequences[n])]) :
                        freq \in [1..Len(sequences) -> Frequencies]} :
                       sequences \in Corpora(CorpusNames, MaxCorpus)}

\* apis_existing_in_corpus_map at the end of the loop over the lines; None
\* when the loop panics
Counted(file, overflow_checks) ==
    IF read_lines(file) = None THEN None
    ELSE apis_existing_in_corpus_map(read_lines(file)[1], overflow_checks)

\* C30: in seed replay (real_world) a chain that names a function absent
\* from the catalog is dropped before replay: it contributes no sequence to
\* the pool, no visited flag and no frequency count, and it never causes the
\* run to abort -- the run on a corpus file, an abort while a line is read
\* or counted included, is the run on the file without the lines of these
\* chains, and a file whose lines are all read and counted does not abort.
C30_ChainWithAbsentFunctionIsDropped ==
    pc = "ready" =>
        \A file \in SeedFiles, overflow_checks \in BOOLEAN :
           (\E n \in 1..Len(file[1]) : NamesAbsent(file[1][n])) =>
              LET without ==
                      Some(SelectSeq(file[1], LAMBDA line : ~NamesAbsent(line)))
                  lines == read_lines(file)
                  counted == Counted(file, overflow_checks)
                  run == real_world(file, overflow_checks)
              IN /\ run = real_world(without, overflow_checks)
                 /\ counted = Counted(without, overflow_checks)
                 /\ lines # None =>
                       retained_chains(ChainsOf(lines[1]))
                           = ChainsOf(read_lines(without)[1])
                 /\ counted # None =>
                       /\ ~corpus_panics(counted[1])
                       /\ run # None

\* a corpus file is at hand whose one line names a function that is admitted
\* on the empty sequence and then an absent one; the replay leaves the pool
\* empty and the function unvisited, and counts nothing; with a line behind
\* it that has no frequency the run aborts, as it does on that line alone;
\* and with a line behind it that names the function twice at the frequency
\* i32::MAX the run aborts when built with overflow checks, and replays the
\* second line when built without
C30_Witness ==
    /\ pc \in {"ready", "rebuilt"}
    /\ \E f \in Functions :
          /\ is_fun_satisfied(f, ApiSequence_new) # None
          /\ find_function(api_functions[f].full_name) = Some(f)
          /\ LET run(file) ==
                     /\ file \in SeedFiles
                     /\ real_world(file, TRUE) # None
                     /\ real_world(file, TRUE)[1].pool = <<>>
                     /\ ~real_world(file, TRUE)[1].visited[f]
                     /\ Counted(file, TRUE) = Some(<<>>)
                 chain == <<api_functions[f].full_name, "ghost">>
                 twice == <<api_functions[f].full_name,
                            api_functions[f].full_name>>
             IN /\ run(FileOf(<<chain>>))
                /\ LET file == Some(<<Line("1", <<"ghost">>),
                                      Line("n/a", <<"t">>)>>)
                   IN /\ file \in SeedFiles
                      /\ real_world(file, TRUE) = None
                      /\ real_world(Some(<<Line("n/a", <<"t">>)>>), TRUE) = None
                /\ LET file == Some(<<Line("1", <<"ghost">>),
                                      Line("2147483647", twice)>>)
                   IN /\ file \in SeedFiles
                      /\ real_world(file, TRUE) = None
                      /\ real_world(file, FALSE) # None
                      /\ real_world(file, FALSE)[1].visited[f]
                      /\ Counted(file, FALSE)
                            = Some([name \in {api_functions[f].full_name} |-> -2])

\* the catalog positions of the names of a chain whose names are all in the
\* catalog
Indexes(chain) == [n \in 1..Len(chain) |-> find_function(chain[n])[1]]

\* the number of calls of the chain before its first inadmissible call
AdmittedCalls(chain) ==
    Cardinality({m \in 1..Len(chain) :
                    FromEmpty(SubSeq(Indexes(chain), 1, m)) # None})

\* the admitted prefixes of the chain, of lengths 1..AdmittedCalls(chain)
AdmittedPrefixes(chain) ==
    [m \in 1..AdmittedCalls(chain) |->
        FromEmpty(SubSeq(Indexes(chain), 1, m))[1]]

RECURSIVE PrefixesOfAll(_, _)
PrefixesOfAll(sequences, n) ==
    IF n > Len(sequences) THEN <<>>
    ELSE AdmittedPrefixes(sequences[n]) \o PrefixesOfAll(sequences, n + 1)

\* C31: in seed replay each retained chain is replayed call by call from the
\* empty sequence: for a chain with m calls before its first inadmissible
\* call exactly the m admitted prefixes of lengths 1..m are pushed to the
\* pool and exactly their functions are marked visited; no call at or after
\* the first inadmissible position is attempted or added.
C31_ReplayStopsAtFirstInadmissibleCall ==
    pc = "ready" =>
        \A sequences \in Corpora(CorpusNames, MaxCorpus) :
           (\A n \in 1..Len(sequences) : "ghost" \notin Range(sequences[n])) =>
              LET prefixes(g, expected) ==
                      /\ g.pool = expected
                      /\ \A f \in Functions :
                            g.visited[f] <=>
                               \E n \in 1..Len(expected) :
                                  f \in _get_contained_api_functions(expected[n])
              IN \A overflow_checks \in BOOLEAN :
                    prefixes(real_world(FileOf(sequences), overflow_checks)[1],
                             PrefixesOfAll(sequences, 1))

\* a corpus is at hand with a chain whose first call is not admitted on the
\* empty sequence and whose second call would be, and the replay pushes
\* nothing
C31_Witness ==
    /\ pc = "ready"
    /\ \E f \in Functions : \E g \in Functions :
          /\ is_fun_satisfied(f, ApiSequence_new) = None
          /\ is_fun_satisfied(g, ApiSequence_new) # None
          /\ find_function(api_functions[f].full_name) = Some(f)
          /\ find_function(api_functions[g].full_name) = Some(g)
          /\ LET run(sequences) ==
                     /\ sequences \in Corpora(CorpusNames, MaxCorpus)
                     /\ real_world(FileOf(sequences), TRUE)[1].pool = <<>>
                     /\ ~real_world(FileOf(sequences), TRUE)[1].visited[g]
             IN run(<< <<api_functions[f].full_name,
                         api_functions[g].full_name>> >>)

(***************************************************************************)
(* Properties of the alternate selection policies.                          *)
(***************************************************************************)
\* the pool sequences that have a fuzzable parameter, in pool order
WithFuzzables == SelectSeq(api_sequences, LAMBDA s : ~_has_no_fuzzables(s))

\* res holds what _first_choose returned
FirstChosen == res # None /\ DOMAIN res[1] = {"max_size", "res"}

\* C32: _first_choose(max_size) returns exactly the first min(max_size, k)
\* pool sequences that have at least one fuzzable parameter, in pool order,
\* where k is the number of such sequences; this includes the empty list
\* when max_size is 0.
C32_FirstChooseReturnsFirstN ==
    FirstChosen =>
        LET k == Len(WithFuzzables)
            n == IF res[1].max_size < k THEN res[1].max_size ELSE k
        IN res[1].res = SubSeq(WithFuzzables, 1, n)

\* for max_size of one or more _first_choose does return the first
\* min(max_size, k) sequences with fuzzables; for max_size 0 it returns the
\* first one
C32_FirstChooseReturnsFirstNFromOne ==
    FirstChosen =>
        LET k == Len(WithFuzzables)
            asked == IF res[1].max_size = 0 THEN 1 ELSE res[1].max_size
            n == IF asked < k THEN asked ELSE k
        IN res[1].res = SubSeq(WithFuzzables, 1, n)

\* res holds the locals of a call of _naive_choose_sequence with
\* max_sequence_size at least the number of visited functions
NaiveChosen ==
    /\ res # None
    /\ "to_cover_nodes" \in DOMAIN res[1]
    /\ res[1].max_sequence_size >= _visited_nodes_num(api_functions_visited)

\* C33: _naive_choose_sequence, called after a search with max_sequence_size
\* at least the number of visited functions, terminates normally for every
\* outcome of its random choices: at each step a covering, not-yet-used
\* sequence exists for the next required function, and the returned
\* sequences together contain every visited function.
C33_NaiveChooseCoversEveryVisitedFunction ==
    NaiveChosen =>
        /\ pc # "panicked"
        /\ pc = "chosen" =>
              \A f \in Functions :
                 api_functions_visited[f] =>
                    \E n \in 1..Len(res[1].res) :
                       f \in _get_contained_api_functions(res[1].res[n])

\* when the call does return, under the same condition, the returned
\* sequences contain every visited function and no function is left to cover
C33_NaiveChooseCoversWhenItReturns ==
    (NaiveChosen /\ pc = "chosen") =>
        /\ res[1].to_cover_nodes = <<>>
        /\ \A f \in Functions :
              api_functions_visited[f] =>
                 \E n \in 1..Len(res[1].res) :
                    f \in _get_contained_api_functions(res[1].res[n])

(***************************************************************************)
(* Properties of one pass of the coverage repair.                           *)
(***************************************************************************)
\* the sequences the first pass of the repair merges for function f on the
\* pool it starts from; None when a parameter of f finds no candidate
MergedFor(f) ==
    LET sequences(indexes) ==
            IF indexes = None THEN None
            ELSE Some([n \in 1..Len(indexes[1]) |-> PoolAtEntry[indexes[1][n]]])
    IN sequences(dependent_sequence_indexes(
                     PoolAtEntry,
                     _choose_candidate_sequence_for_merge(PoolAtEntry), f))

\* C34: in the coverage-repair pass, whenever every non-fuzzable parameter
\* of an unvisited function has been matched to the last call of some
\* candidate sequence, admission of that function on the merge of the
\* chosen candidates succeeds; the "Should not go to here" branch is
\* unreachable.
C34_MatchedFunctionIsAdmitted ==
    pc \in {"ready", "rebuilt", "searched"} =>
        \A f \in Functions :
           (~FlagsAtEntry[f] /\ MergedFor(f) # None) =>
               is_fun_satisfied(f, _merge_sequences(MergedFor(f)[1])) # None

(***************************************************************************)
(* Properties of the covered-edge set of a sequence.                        *)
(***************************************************************************)
\* some call of s has a parameter bound to an earlier call's result along
\* edge e of the dependency set
EdgeUsed(s, e) ==
    \E c \in Calls(s) : \E k \in Params(s, c) : \E j \in Calls(s) :
       /\ TakesResult(s, c, k, j)
       /\ j < c
       /\ api_dependencies[e].output_fun = s.functions[j].func
       /\ api_dependencies[e].input_fun = s.functions[c].func
       /\ api_dependencies[e].input_param_index = k

\* C35: in every sequence returned by is_fun_satisfied, each edge id in the
\* sequence's covered-edge set is actually used: some call of the sequence
\* has a parameter bound to an earlier call's result along exactly that
\* edge (producer function, consumer function, parameter index).  An edge
\* that was examined for a producer and then rejected on a borrow or move
\* conflict is not recorded as covered.
C35_CoveredEdgeIsUsed ==
    \A s \in Pool : \A e \in s._covered_dependencies : EdgeUsed(s, e)

(***************************************************************************)
(* Properties of the parameters of the calls of a sequence.                 *)
(***************************************************************************)
\* the dependency set has an edge from the function of call j of s to
\* parameter k of the function of call c, with access mode call_type
HasEdgeWithMode(s, j, c, k, call_type) ==
    \E e \in 1..Len(api_dependencies) :
       /\ api_dependencies[e].output_fun = s.functions[j].func
       /\ api_dependencies[e].input_fun = s.functions[c].func
       /\ api_dependencies[e].input_param_index = k
       /\ api_dependencies[e].call_type = call_type

\* C36: in every sequence built by repeated admission from the empty
\* sequence, each parameter bound to a call result refers to a call at a
\* strictly smaller position than the call that uses it, and the dependency
\* set contains an edge from the referenced call's function to the using
\* call's function at that parameter index whose access mode equals the mode
\* recorded on the parameter.
C36_BoundParameterFollowsAnEdge ==
    \A s \in Pool : \A c \in Calls(s) : \A k \in Params(s, c) :
       s.functions[c].params[k].param_type = "_FunctionReturn" =>
          LET j == s.functions[c].params[k].index
          IN /\ j \in 1..(c - 1)
             /\ HasEdgeWithMode(s, j, c, k, Mode(s, c, k))

\* a call of a pool sequence takes one result by exclusive borrow and
\* another, not of the call just before it, by shared borrow
C36_Witness ==
    \E s \in Pool : \E c \in Calls(s) : \E k \in Params(s, c) :
       \E k2 \in Params(s, c) : \E j \in Calls(s) : \E j2 \in Calls(s) :
          /\ TakesResult(s, c, k, j) /\ Mode(s, c, k) = "_MutBorrowedRef"
          /\ TakesResult(s, c, k2, j2) /\ Mode(s, c, k2) = "_BorrowedRef"
          /\ j # j2 /\ (j < c - 1 \/ j2 < c - 1)

\* parameter k of call c of s is a fuzzable one
IsFuzzable(s, c, k) == s.functions[c].params[k].param_type = "_FuzzableType"

\* the slot indexes that the fuzzable parameters of calls c, c + 1, .. of s
\* refer to, in call order and within a call in parameter order
RECURSIVE SlotsReferred(_, _)
SlotsReferred(s, c) ==
    IF c > Len(s.functions) THEN <<>>
    ELSE LET fuzzables ==
                 SelectSeq(s.functions[c].params,
                           LAMBDA p : p.param_type = "_FuzzableType")
         IN [n \in 1..Len(fuzzables) |-> fuzzables[n].index]
               \o SlotsReferred(s, c + 1)

\* C37: in every sequence built by repeated admission from the empty
\* sequence, fuzzable slots and fuzzable call parameters are in one-to-one
\* correspondence: each fuzzable parameter refers to a slot of the sequence,
\* no two parameters refer to the same slot, every slot is referred to by
\* exactly one parameter, and slot indices increase in call order and,
\* within a call, in parameter order.  With slots counted from one, the
\* fuzzable parameters refer, in that order, to the slots 1, 2, .. up to
\* the number of slots.
C37_SlotsMatchFuzzableParameters ==
    \A s \in Pool : SlotsReferred(s, 1) = Iota(Len(s.fuzzable_params))

\* a call of a pool sequence has a fuzzable parameter after a parameter
\* bound to a result, and an earlier call has a fuzzable parameter too
C37_Witness ==
    \E s \in Pool : \E c \in Calls(s) : \E c2 \in Calls(s) :
       \E k \in Params(s, c2) : \E j \in Calls(s) :
          /\ c < c2
          /\ \E k1 \in Params(s, c) : IsFuzzable(s, c, k1)
          /\ TakesResult(s, c2, k, j)
          /\ \E k2 \in Params(s, c2) :
                k2 > k /\ IsFuzzable(s, c2, k2)
                       /\ s.functions[c2].params[k2].index >= 2

(***************************************************************************)
(* Properties of what _heuristic_choose returns.                            *)
(***************************************************************************)
\* res holds what _heuristic_choose returned
HeuristicChosen ==
    /\ pc = "chosen"
    /\ res # None
    /\ DOMAIN res[1] = {"max_size", "stop_at_visit_all_nodes", "res"}

\* C38: _heuristic_choose(max_size, ..) returns at most max_size sequences,
\* for every pool and every max_size >= 0.
C38_AtMostMaxSizeChosen ==
    HeuristicChosen => Len(res[1].res) <= res[1].max_size

\* the pool indexes of the sequences valid for fuzzing
ValidIndexes ==
    {n \in 1..Len(api_sequences) : valid_fuzz_sequence(api_sequences[n])}

\* the functions called by the sequences of the list
CoveredBy(sequences) ==
    UNION {_get_contained_api_functions(sequences[n]) : n \in 1..Len(sequences)}

\* C39 as stated: when max_size is at least the number of valid (non-dead,
\* fuzzable-bearing) pool sequences and stop_at_visit_all_nodes is false,
\* the list returned by _heuristic_choose covers every function that is
\* contained in at least one valid pool sequence.  Checked for max_size
\* equal to the number of valid sequences, on every pool a search leaves.
C39_ChosenCoverEveryValidFunction ==
    pc \in {"searched", "covered"} =>
        LET covers(chosen) ==
                \A n \in ValidIndexes :
                   _get_contained_api_functions(api_sequences[n])
                      \subseteq CoveredBy(chosen)
        IN covers(_heuristic_choose(Cardinality(ValidIndexes), FALSE))
====
